---- MODULE Spec2Model ----
(***************************************************************************)
(* A model of the BSAMS backend core: the training-load engine, the CSV    *)
(* ingestion service with the upload endpoint, and the analysis endpoints. *)
(*                                                                         *)
(* Conventions.  Calendar dates are day ordinals (integers).  A Python     *)
(* Optional value is a sequence of length 0 (None) or 1 (the value).  A    *)
(* Python dict is a TLA+ function whose DOMAIN is the set of keys that are *)
(* present, so "key absent" and "key present with value None" differ.      *)
(* Decimal results that the code rounds to 2 places are integers counting  *)
(* hundredths.                                                             *)
(***************************************************************************)
EXTENDS Integers, Sequences, FiniteSets, TLC

VARIABLES
    call,   \* the request or function call handled last: its name and arguments
    ret,    \* what that call returned (or the exception / HTTP error it raised)
    db      \* the rows of the external store: profiles, athletes, performance_events

vars == <<call, ret, db>>

----------------------------------------------------------------------------
(* Optional values *)

None == <<>>
Some(v) == <<v>>
IsNone(x) == Len(x) = 0
Val(x) == x[1]

\* dict.get(key, default)
Get(d, key, default) == IF key \in DOMAIN d THEN d[key] ELSE default

----------------------------------------------------------------------------
(* Arithmetic helpers *)

\* round(p / q) to the nearest integer, ties to the even neighbour (q > 0, p >= 0)
RoundDiv(p, q) ==
    LET f == p \div q
        r == p % q
    IN  IF 2 * r < q THEN f
        ELSE IF 2 * r > q THEN f + 1
        ELSE IF f % 2 = 0 THEN f ELSE f + 1

\* the largest k in lo..hi with k * k <= n, by bisection (lo * lo <= n)
RECURSIVE IsqrtIn(_, _, _)
IsqrtIn(n, lo, hi) ==
    IF lo >= hi THEN lo
    ELSE LET mid == (lo + hi + 1) \div 2
         IN  IF mid * mid <= n THEN IsqrtIn(n, mid, hi) ELSE IsqrtIn(n, lo, mid - 1)

\* floor of the square root of n, 0 <= n < 2^31
Isqrt(n) == IsqrtIn(n, 0, 46340)

RECURSIVE SumSeq(_)
SumSeq(s) == IF Len(s) = 0 THEN 0 ELSE Head(s) + SumSeq(Tail(s))

RECURSIVE SumSquares(_)
SumSquares(s) == IF Len(s) = 0 THEN 0 ELSE Head(s) * Head(s) + SumSquares(Tail(s))

SetMin(S) == CHOOSE x \in S : \A y \in S : x <= y

----------------------------------------------------------------------------
(* Bounds of the explored inputs *)

TargetDate == 100
MaxDays == 28
MaxSessions == 2

\* days before the target date at which a session may be dated (-1: the day after)
DateOffsets == {-1, 0, 7, 27}

\* A stored training session: rpe and duration_minutes always present, srpe
\* either a number, present with value None, or no key at all.
SessionChoices ==
    LET dates == {TargetDate - o : o \in DateOffsets}
    IN  { [session_date |-> d, rpe |-> 2, duration_minutes |-> 3] : d \in dates }
        \cup { [session_date |-> d, rpe |-> 2, duration_minutes |-> 3, srpe |-> v] :
                 d \in dates, v \in {None, Some(5)} }

SeqsUpTo(S, n) == UNION { [1..k -> S] : k \in 0..n }

\* the longest list of daily loads handed to a calculation
MaxLoadDays == 29

\* lengths around the 7-day and 28-day windows
LoadLengths == {0, 1, 6, 7, 27, 28, MaxLoadDays}

\* Lists of DailyLoad as calculate_daily_loads returns them: one entry per day,
\* ascending, ending the day before, on or after the target date; every day
\* carries the base load but one day that may carry another.
DailyLoadChoices ==
    { [i \in 1..n |->
          [date |-> last - n + i,
           total_srpe |-> IF last - n + i = TargetDate - off THEN other ELSE base,
           session_count |-> 1]] :
        n \in LoadLengths, last \in {TargetDate - 1, TargetDate, TargetDate + 1},
        base \in {0, 3}, off \in {0, 6, 7, 27}, other \in {0, 3, 5} }

----------------------------------------------------------------------------
(* TrainingLoadEngine *)

\* lines 54-59: the sRPE one session adds to its day
SessionSrpe(session) ==
    LET srpe == Get(session, "srpe", Some(0))
    IN  IF IsNone(srpe)
        THEN Get(session, "rpe", 0) * Get(session, "duration_minutes", 0)
        ELSE Val(srpe)

\* lines 48-69 with a later session of a day replacing the load of the earlier
\* ones instead of adding to it
RECURSIVE GroupSessions_last(_, _)
GroupSessions_last(sessions, i) ==
    IF i = 0 THEN [d \in {} |-> 0]
    ELSE LET acc == GroupSessions_last(sessions, i - 1)
             session == sessions[i]
             session_date == session.session_date
             srpe == SessionSrpe(session)
         IN  IF session_date \in DOMAIN acc
             THEN [acc EXCEPT ![session_date] =
                      [date |-> session_date,
                       total_srpe |-> srpe,
                       session_count |-> @.session_count + 1]]
             ELSE [d \in DOMAIN acc \cup {session_date} |->
                      IF d = session_date
                      THEN [date |-> session_date, total_srpe |-> srpe, session_count |-> 1]
                      ELSE acc[d]]

\* lines 48-69: load_by_date after the first i sessions were grouped
RECURSIVE GroupSessions(_, _)
GroupSessions(sessions, i) ==
    IF i = 0 THEN [d \in {} |-> 0]
    ELSE LET acc == GroupSessions(sessions, i - 1)
             session == sessions[i]
             session_date == session.session_date
             srpe == SessionSrpe(session)
         IN  IF session_date \in DOMAIN acc
             THEN [acc EXCEPT ![session_date] =
                      [date |-> session_date,
                       total_srpe |-> @.total_srpe + srpe,
                       session_count |-> @.session_count + 1]]
             ELSE [d \in DOMAIN acc \cup {session_date} |->
                      IF d = session_date
                      THEN [date |-> session_date, total_srpe |-> srpe, session_count |-> 1]
                      ELSE acc[d]]

\* lines 71-80: a zero entry for every day of [start_date, end_date] not yet present
FillZeroDays(load_by_date, start_date, end_date) ==
    [d \in DOMAIN load_by_date \cup (start_date..end_date) |->
        IF d \in DOMAIN load_by_date THEN load_by_date[d]
        ELSE [date |-> d, total_srpe |-> 0, session_count |-> 0]]

\* line 82: sorted(load_by_date.values(), key=lambda d: d.date)
RECURSIVE SortedByDate(_, _)
SortedByDate(load_by_date, dates) ==
    IF dates = {} THEN <<>>
    ELSE LET first == SetMin(dates)
         IN  <<load_by_date[first]>> \o SortedByDate(load_by_date, dates \ {first})

calculate_daily_loads(sessions, start_date, end_date) ==
    LET load_by_date == FillZeroDays(GroupSessions(sessions, Len(sessions)),
                                     start_date, end_date)
    IN  SortedByDate(load_by_date, DOMAIN load_by_date)

\* [d.total_srpe for d in daily_loads if lo <= d.date <= hi]
WindowLoads(daily_loads, lo, hi) ==
    LET kept == SelectSeq(daily_loads, LAMBDA d : lo <= d.date /\ d.date <= hi)
    IN  [i \in 1..Len(kept) |-> kept[i].total_srpe]

\* lines 89-90 answering an empty window with 0
calculate_weekly_load_zero(daily_loads, target_date) ==
    Some(SumSeq(WindowLoads(daily_loads, target_date - 6, target_date)))

\* lines 84-91
calculate_weekly_load(daily_loads, target_date) ==
    LET week_loads == WindowLoads(daily_loads, target_date - 6, target_date)
    IN  IF Len(week_loads) = 0 THEN None ELSE Some(SumSeq(week_loads))

\* monotony with the SD == 0 case of lines 113-114 answered 0
calculate_monotony_flat(daily_loads, target_date) ==
    LET week_loads == WindowLoads(daily_loads, target_date - 6, target_date)
        n == Len(week_loads)
        S == SumSeq(week_loads)
        D == n * SumSquares(week_loads) - S * S
    IN  IF n < 7 THEN None
        ELSE IF S = 0 THEN None
        ELSE IF D = 0 THEN Some(0)
        ELSE Some((Isqrt((40000 * S * S) \div D) + 1) \div 2)

\* round(mean / sd, 2) in hundredths.  With S the sum, Q the sum of squares and n
\* the count, mean / sd = S / sqrt(n*Q - S*S); the nearest hundredth k is the
\* largest k with (2k - 1)^2 * (n*Q - S*S) <= (200*S)^2.
calculate_monotony(daily_loads, target_date) ==
    LET week_loads == WindowLoads(daily_loads, target_date - 6, target_date)
        n == Len(week_loads)
        S == SumSeq(week_loads)
        D == n * SumSquares(week_loads) - S * S
    IN  IF n < 7 THEN None
        ELSE IF S = 0 THEN None
        ELSE IF D = 0 THEN None
        ELSE Some((Isqrt((40000 * S * S) \div D) + 1) \div 2)

\* round(weekly_load * monotony, 2) in hundredths
calculate_strain(weekly_load, monotony) ==
    IF IsNone(weekly_load) \/ IsNone(monotony) THEN None
    ELSE Some(Val(weekly_load) * Val(monotony))

\* acwr gated on the acute window alone
calculate_acwr_acute_gate(daily_loads, target_date) ==
    LET acute_loads == WindowLoads(daily_loads, target_date - 6, target_date)
        chronic_loads == WindowLoads(daily_loads, target_date - 27, target_date)
    IN  IF Len(acute_loads) < 7 THEN None
        ELSE IF SumSeq(chronic_loads) = 0 THEN None
        ELSE Some(RoundDiv(100 * SumSeq(acute_loads) * Len(chronic_loads),
                           Len(acute_loads) * SumSeq(chronic_loads)))

\* round(acute_mean / chronic_mean, 2) in hundredths
calculate_acwr(daily_loads, target_date) ==
    LET acute_loads == WindowLoads(daily_loads, target_date - 6, target_date)
        chronic_loads == WindowLoads(daily_loads, target_date - 27, target_date)
    IN  IF Len(acute_loads) < 7 \/ Len(chronic_loads) < 28 THEN None
        ELSE IF SumSeq(chronic_loads) = 0 THEN None
        ELSE Some(RoundDiv(100 * SumSeq(acute_loads) * Len(chronic_loads),
                           Len(acute_loads) * SumSeq(chronic_loads)))

\* acute_load gated like acwr, on both windows
acute_load_gated_like_acwr(daily_loads, target_date) ==
    LET acute_loads == WindowLoads(daily_loads, target_date - 6, target_date)
        chronic_loads == WindowLoads(daily_loads, target_date - 27, target_date)
    IN  IF Len(acute_loads) >= 7 /\ Len(chronic_loads) >= 28
        THEN Some(RoundDiv(100 * SumSeq(acute_loads), Len(acute_loads)))
        ELSE None

\* lines 182-183: the two means shown beside the ratio, in hundredths
acute_load_of(daily_loads, target_date) ==
    LET acute_loads == WindowLoads(daily_loads, target_date - 6, target_date)
    IN  IF Len(acute_loads) >= 7
        THEN Some(RoundDiv(100 * SumSeq(acute_loads), Len(acute_loads)))
        ELSE None

chronic_load_of(daily_loads, target_date) ==
    LET chronic_loads == WindowLoads(daily_loads, target_date - 27, target_date)
    IN  IF Len(chronic_loads) >= 28
        THEN Some(RoundDiv(100 * SumSeq(chronic_loads), Len(chronic_loads)))
        ELSE None

analyze(sessions, days, target_date) ==
    LET start_date == target_date - (days - 1)
        daily_loads == calculate_daily_loads(sessions, start_date, target_date)
        weekly_load == calculate_weekly_load(daily_loads, target_date)
        monotony == calculate_monotony(daily_loads, target_date)
    IN  [daily_loads |-> daily_loads,
         weekly_load |-> weekly_load,
         monotony |-> monotony,
         strain |-> calculate_strain(weekly_load, monotony),
         acwr |-> calculate_acwr(daily_loads, target_date),
         acute_load |-> acute_load_of(daily_loads, target_date),
         chronic_load |-> chronic_load_of(daily_loads, target_date)]

----------------------------------------------------------------------------
(* StatEngine.  Values are hundredths; the results the code rounds to 2      *)
(* places are the nearest hundredth of the exact quotient or root.           *)

\* round(p / q) for any sign of p (q > 0)
RoundDivSigned(p, q) == IF p >= 0 THEN RoundDiv(p, q) ELSE 0 - RoundDiv(0 - p, q)

\* round(sqrt(r) / m) to the nearest integer (r >= 0, m > 0)
RoundSqrtDiv(r, m) ==
    IF Isqrt(r) * Isqrt(r) = r THEN RoundDiv(Isqrt(r), m)
    ELSE (Isqrt(4 * r) + m) \div (2 * m)

\* n * sum(x^2) - sum(x)^2 = n * sum((x - mean)^2)
ScaledSquaredDiffs(values) ==
    Len(values) * SumSquares(values) - SumSeq(values) * SumSeq(values)

\* lines 23-35
calculate_mean(values) ==
    IF Len(values) = 0 THEN None
    ELSE Some(RoundDiv(SumSeq(values), Len(values)))

\* lines 38-62
calculate_std_dev(values, population) ==
    LET n == Len(values)
    IN  IF n = 0 THEN None
        ELSE IF n = 1 THEN Some(0)
        ELSE IF population THEN Some(RoundSqrtDiv(ScaledSquaredDiffs(values), n))
        ELSE Some(RoundSqrtDiv(ScaledSquaredDiffs(values) * n * (n - 1), n * (n - 1)))

\* round(v, 1), in hundredths; a value halfway between two tenths goes where its
\* binary float lies
Round1(v) ==
    IF v % 10 < 5 THEN v - (v % 10)
    ELSE IF v % 10 > 5 THEN v - (v % 10) + 10
    ELSE CASE v = 105 -> 110
           [] v = 4005 -> 4000
           [] v = 4015 -> 4010
           [] v = 4025 -> 4020
           [] v = 4035 -> 4040
           [] v = 4105 -> 4100
           [] v = 4515 -> 4510
           [] v = 4525 -> 4520

\* line 92 with max(modes) for min(modes)
calculate_mode_largest(values) ==
    IF Len(values) = 0 THEN None
    ELSE LET rounded_values == [i \in DOMAIN values |-> Round1(values[i])]
             keys == {rounded_values[i] : i \in DOMAIN values}
             counts == [k \in keys |->
                          Cardinality({i \in DOMAIN values : rounded_values[i] = k})]
             modes == {k \in keys : \A other \in keys : counts[other] <= counts[k]}
         IN  Some(CHOOSE k \in modes : \A other \in modes : other <= k)

\* lines 65-92
calculate_mode(values) ==
    IF Len(values) = 0 THEN None
    ELSE LET rounded_values == [i \in DOMAIN values |-> Round1(values[i])]
             keys == {rounded_values[i] : i \in DOMAIN values}
             counts == [k \in keys |->
                          Cardinality({i \in DOMAIN values : rounded_values[i] = k})]
             modes == {k \in keys : \A other \in keys : counts[other] <= counts[k]}
         IN  Some(SetMin(modes))

\* lines 95-130: None, or <<lower, upper>>.  mean -/+ 1.96 * std_dev / sqrt(n)
\* is (50 * sum -/+ sqrt(t)) / (50 * n) with t = 98^2 * std_dev^2 * n.
calculate_confidence_interval_95(values) ==
    LET n == Len(values)
        total == SumSeq(values)
        std_dev == calculate_std_dev(values, FALSE)
        t == 9604 * Val(std_dev) * Val(std_dev) * n
    IN  IF n < 2 THEN None
        ELSE IF Val(std_dev) = 0
        THEN Some(<<RoundDiv(total, n), RoundDiv(total, n)>>)
        ELSE IF Isqrt(t) * Isqrt(t) = t
        THEN Some(<<RoundDiv(50 * total - Isqrt(t), 50 * n),
                    RoundDiv(50 * total + Isqrt(t), 50 * n)>>)
        ELSE Some(<<(50 * total + 25 * n - Isqrt(t) - 1) \div (50 * n),
                    (50 * total + 25 * n + Isqrt(t)) \div (50 * n)>>)

\* lines 150-151 answering the raw difference when std_dev is 0
calculate_z_score_raw(value, mean, std_dev) ==
    IF std_dev = 0 THEN 100 * (value - mean)
    ELSE RoundDivSigned(100 * (value - mean), std_dev)

\* lines 133-154
calculate_z_score(value, mean, std_dev) ==
    IF std_dev = 0 THEN 0
    ELSE RoundDivSigned(100 * (value - mean), std_dev)

\* f"{lower}-{lower + 4.9}kg"
MassBandLabel(lower) ==
    CASE lower = 0 -> "0-4.9kg"
      [] lower = 5 -> "5-9.9kg"
      [] lower = 10 -> "10-14.9kg"
      [] lower = 15 -> "15-19.9kg"
      [] lower = 20 -> "20-24.9kg"
      [] lower = 25 -> "25-29.9kg"
      [] lower = 30 -> "30-34.9kg"
      [] lower = 35 -> "35-39.9kg"
      [] lower = 40 -> "40-44.9kg"
      [] lower = 45 -> "45-49.9kg"
      [] lower = 50 -> "50-54.9kg"
      [] lower = 55 -> "55-59.9kg"
      [] lower = 60 -> "60-64.9kg"
      [] lower = 65 -> "65-69.9kg"
      [] lower = 70 -> "70-74.9kg"
      [] lower = 75 -> "75-79.9kg"
      [] lower = 80 -> "80-84.9kg"
      [] lower = 85 -> "85-89.9kg"
      [] lower = 90 -> "90-94.9kg"
      [] lower = 95 -> "95-99.9kg"
      [] lower = 100 -> "100-104.9kg"
      [] lower = 105 -> "105-109.9kg"

\* line 175 rounding to the nearest multiple of 5 instead of flooring
get_mass_band_nearest(mass_kg) == MassBandLabel(((mass_kg + 250) \div 500) * 5)

\* lines 157-178
get_mass_band(mass_kg) == MassBandLabel((mass_kg \div 500) * 5)

\* lines 181-209 with the interval of a single value given as (mean, mean)
calculate_benchmarks_single_ci(values) ==
    IF Len(values) = 0 THEN None
    ELSE LET ci == IF Len(values) = 1 THEN Some(<<values[1], values[1]>>)
                   ELSE calculate_confidence_interval_95(values)
         IN  Some([mean |-> calculate_mean(values),
                   std_dev |-> calculate_std_dev(values, TRUE),
                   mode |-> calculate_mode(values),
                   ci_lower |-> IF IsNone(ci) THEN None ELSE Some(Val(ci)[1]),
                   ci_upper |-> IF IsNone(ci) THEN None ELSE Some(Val(ci)[2]),
                   count |-> Len(values)])

\* lines 181-209
calculate_benchmarks(values) ==
    IF Len(values) = 0 THEN None
    ELSE LET ci == calculate_confidence_interval_95(values)
         IN  Some([mean |-> calculate_mean(values),
                   std_dev |-> calculate_std_dev(values, TRUE),
                   mode |-> calculate_mode(values),
                   ci_lower |-> IF IsNone(ci) THEN None ELSE Some(Val(ci)[1]),
                   ci_upper |-> IF IsNone(ci) THEN None ELSE Some(Val(ci)[2]),
                   count |-> Len(values)])

----------------------------------------------------------------------------
(* Text.  Cell texts are drawn from a fixed vocabulary; str.strip, str.lower,  *)
(* float() and datetime.strptime are given by what they do on each text.       *)

\* str.strip()
Strip(text) ==
    CASE text = "  " -> ""
      [] text = " 17.01.2024 " -> "17.01.2024"
      [] text = " 46.1 " -> "46.1"
      [] text = " John Doe " -> "John Doe"
      [] OTHER -> text

\* str.lower()
Lower(text) ==
    CASE text = "NA" -> "na"
      [] text = "N/A" -> "n/a"
      [] text = "Male" -> "male"
      [] text = "FEMALE" -> "female"
      [] OTHER -> text

\* float(text): the value in hundredths, or None where float() raises ValueError
FloatOf(text) ==
    CASE text = "45.2" -> Some(4520)
      [] text = "46.1" -> Some(4610)
      [] text = "41.0" -> Some(4100)
      [] text = "0" -> Some(0)
      [] text = "500" -> Some(50000)
      [] text = "500.01" -> Some(50001)
      [] text = "600" -> Some(60000)
      [] text = "-1" -> Some(-100)
      [] text = "75.5" -> Some(7550)
      [] text = "72.0" -> Some(7200)
      [] text = "300" -> Some(30000)
      [] text = "301" -> Some(30100)
      [] OTHER -> None

\* datetime.strptime(text, fmt).date().isoformat() for the format whose separator
\* is sep, or None where strptime raises ValueError
StrptimeIso(text, sep) ==
    CASE text = "15/01/2024" /\ sep = "/" -> Some("2024-01-15")
      [] text = "13/01/2024" /\ sep = "/" -> Some("2024-01-13")
      [] text = "16-01-2024" /\ sep = "-" -> Some("2024-01-16")
      [] text = "17.01.2024" /\ sep = "." -> Some("2024-01-17")
      [] OTHER -> None

\* HTML_TAG_RE.sub("", value)
strip_html(text) ==
    CASE text = "<b>John Doe</b>" -> "John Doe"
      [] text = "<i>Jane</i>" -> "Jane"
      [] OTHER -> text

\* value[:100]
Truncate100(text) ==
    CASE text = "a name of 101 characters" -> "its first 100 characters"
      [] OTHER -> text

\* f"{first} {surname}".strip() for a non-empty surname
FullName(first, surname) ==
    CASE first = "John" /\ surname = "Doe" -> "John Doe"
      [] first = "Jane" /\ surname = "Doe" -> "Jane Doe"
      [] first = "" -> surname

----------------------------------------------------------------------------
(* CSVColumnMapping and csv.DictReader *)

METRIC_MIN == 0
METRIC_MAX == 500
BODY_MASS_MAX == 300

\* CSVColumnMapping(): the fields the schema declares, with their defaults;
\* metric_columns in insertion order
DefaultMapping ==
    [date_column |-> "Test Date",
     mass_column |-> "Body Mass (kg)",
     athlete_column |-> Some("Athlete"),
     first_name_column |-> Some("First Name"),
     surname_column |-> Some("Surname"),
     metric_columns |-> <<
        [csv_column |-> "CMJ Height (cm)", test_type |-> "CMJ", metric_key |-> "height_cm"],
        [csv_column |-> "SJ Height (cm)", test_type |-> "SJ", metric_key |-> "sj_height_cm"],
        [csv_column |-> "EUR (cm)", test_type |-> "CMJ", metric_key |-> "eur_cm"],
        [csv_column |-> "RSI", test_type |-> "CMJ", metric_key |-> "rsi"],
        [csv_column |-> "RSI Flight (ms)", test_type |-> "CMJ", metric_key |-> "flight_time_ms"],
        [csv_column |-> "RSI Contact (ms)", test_type |-> "CMJ",
         metric_key |-> "contraction_time_ms"],
        [csv_column |-> "CMJ RSI", test_type |-> "CMJ", metric_key |-> "rsi"],
        [csv_column |-> "CMJ Flight Time (ms)", test_type |-> "CMJ",
         metric_key |-> "flight_time_ms"],
        [csv_column |-> "CMJ Contraction Time (ms)", test_type |-> "CMJ",
         metric_key |-> "contraction_time_ms"] >>]

\* mapping.<name>: an attribute of a pydantic model exists iff the schema declares it
HasAttr(mapping, name) == name \in DOMAIN mapping

\* A CSV text is [bom, lines]: whether it starts with U+FEFF, and its lines as
\* csv.reader splits them into cells (a blank line has no cell).

\* lines 137-138 / 244-245
StripBom(csv_content) == [csv_content EXCEPT !.bom = FALSE]

\* DictReader.fieldnames: the cells of the first line; a BOM left in the text
\* becomes part of the first field name
Fieldnames(csv_content) ==
    IF Len(csv_content.lines) = 0 THEN <<>>
    ELSE LET first == csv_content.lines[1]
         IN  [i \in 1..Len(first) |->
                 IF i = 1 /\ csv_content.bom THEN "\\ufeff..." ELSE first[i]]

RestKey == "<restkey None>"

\* the dict DictReader builds from one data line: dict(zip(fieldnames, cells)),
\* the surplus cells under restkey, None (restval) for the fields without a cell
RowDict(fieldnames, cells) ==
    LET lf == Len(fieldnames)
        lr == Len(cells)
        names == {fieldnames[i] : i \in 1..lf}
        CellOf(name) ==
            LET i == CHOOSE j \in 1..lf :
                        fieldnames[j] = name /\ \A k \in (j + 1)..lf : fieldnames[k] # name
            IN  IF i <= lr THEN Some(cells[i]) ELSE None
    IN  [k \in names \cup (IF lf < lr THEN {RestKey} ELSE {}) |->
            IF k = RestKey /\ k \notin names THEN SubSeq(cells, lf + 1, lr) ELSE CellOf(k)]

\* the rows DictReader yields, each with the 1-based number of its line in the
\* file: the header line is consumed first, lines without cells are skipped
RECURSIVE ReaderRows(_, _, _)
ReaderRows(csv_content, fieldnames, i) ==
    IF i > Len(csv_content.lines) THEN <<>>
    ELSE (IF csv_content.lines[i] = <<>> THEN <<>>
          ELSE <<[line |-> i, row |-> RowDict(fieldnames, csv_content.lines[i])]>>)
         \o ReaderRows(csv_content, fieldnames, i + 1)

DictReader(csv_content) ==
    ReaderRows(csv_content, Fieldnames(csv_content), 2)

----------------------------------------------------------------------------
(* CSVIngestionService *)

\* A call ends in one of: a value, a caught-or-propagated ValueError, or an
\* AttributeError (None.strip(), or an attribute the mapping does not have).
Ok(v) == [kind |-> "ok", value |-> v]
Raise(exc, reason) == [kind |-> exc, reason |-> reason]

\* lines 38-60; date_str None has no strip()
parse_date_ddmmyyyy(cell) ==
    IF IsNone(cell) THEN Raise("AttributeError", "'NoneType' object has no attribute 'strip'")
    ELSE LET date_str == Strip(Val(cell))
             slash == StrptimeIso(date_str, "/")
             dash == StrptimeIso(date_str, "-")
             dot == StrptimeIso(date_str, ".")
         IN  IF ~IsNone(slash) THEN Ok(Val(slash))
             ELSE IF ~IsNone(dash) THEN Ok(Val(dash))
             ELSE IF ~IsNone(dot) THEN Ok(Val(dot))
             ELSE Raise("ValueError", "Invalid date format")

\* lines 62-82: Ok(None) for blank and NA texts, Ok(Some(v)) for a number
parse_numeric(cell) ==
    IF IsNone(cell) THEN Raise("AttributeError", "'NoneType' object has no attribute 'strip'")
    ELSE LET value == Strip(Val(cell))
         IN  IF value = "" \/ Lower(value) \in {"", "na", "n/a", "-"} THEN Ok(None)
             ELSE IF IsNone(FloatOf(value)) THEN Raise("ValueError", "Invalid numeric value")
             ELSE Ok(FloatOf(value))

\* d[key] = value on a dict
Put(d, key, value) == [k \in DOMAIN d \cup {key} |-> IF k = key THEN value ELSE d[k]]

EmptyDict == [k \in {} |-> None]

\* lines 94-114: the metrics after the first i mappings; an AttributeError of
\* parse_numeric is not caught and ends the loop
RECURSIVE ExtractLoop(_, _, _)
ExtractLoop(mapping, row, i) ==
    IF i = 0 THEN Ok(EmptyDict)
    ELSE LET before == ExtractLoop(mapping, row, i - 1)
             mapping_info == mapping.metric_columns[i]
         IN  IF before.kind # "ok" THEN before
             ELSE IF mapping_info.csv_column \notin DOMAIN row THEN before
             ELSE LET parsed == parse_numeric(row[mapping_info.csv_column])
                      metrics == before.value
                  IN  IF parsed.kind = "AttributeError" THEN parsed
                      ELSE IF parsed.kind = "ValueError" THEN before
                      ELSE IF IsNone(parsed.value) THEN before
                      ELSE IF Val(parsed.value) < METRIC_MIN * 100
                              \/ Val(parsed.value) > METRIC_MAX * 100 THEN before
                      ELSE Ok(Put(IF "test_type" \notin DOMAIN metrics
                                  THEN Put(metrics, "test_type", mapping_info.test_type)
                                  ELSE metrics,
                                  mapping_info.metric_key, Val(parsed.value)))

extract_metrics(mapping, row) ==
    ExtractLoop(mapping, row, Len(mapping.metric_columns))

NoneStrip == Raise("AttributeError", "'NoneType' object has no attribute 'strip'")

\* lines 181-191 with the ValueError of a non-numeric body mass left to reach the
\* row handler of process_csv instead of being passed over
BodyMassOf_raising(mapping, row) ==
    LET mass_column == mapping.mass_column
    IN  IF mass_column \notin DOMAIN row THEN Ok(None)
        ELSE IF IsNone(row[mass_column]) THEN NoneStrip
        ELSE IF Strip(Val(row[mass_column])) = "" THEN Ok(None)
        ELSE LET parsed == parse_numeric(row[mass_column])
             IN  IF parsed.kind = "ValueError" THEN parsed
                 ELSE IF IsNone(parsed.value) THEN Ok(None)
                 ELSE IF Val(parsed.value) < 0 \/ Val(parsed.value) > BODY_MASS_MAX * 100
                      THEN Ok(None)
                      ELSE Ok(parsed.value)

\* lines 181-191: Ok(body_mass_kg), or the AttributeError of a None cell
BodyMassOf(mapping, row) ==
    LET mass_column == mapping.mass_column
    IN  IF mass_column \notin DOMAIN row THEN Ok(None)
        ELSE IF IsNone(row[mass_column]) THEN NoneStrip
        ELSE IF Strip(Val(row[mass_column])) = "" THEN Ok(None)
        ELSE LET parsed == parse_numeric(row[mass_column])
             IN  IF parsed.kind = "ValueError" THEN Ok(None)
                 ELSE IF IsNone(parsed.value) THEN Ok(None)
                 ELSE IF Val(parsed.value) < 0 \/ Val(parsed.value) > BODY_MASS_MAX * 100
                      THEN Ok(None)
                      ELSE Ok(parsed.value)

\* lines 209-220: the event with its athlete_id or athlete_name
WithAthlete(mapping, row, athlete_id, event) ==
    IF ~IsNone(athlete_id) THEN Ok(Put(event, "athlete_id", Val(athlete_id)))
    ELSE IF ~IsNone(mapping.athlete_column) /\ Val(mapping.athlete_column) \in DOMAIN row
    THEN LET cell == row[Val(mapping.athlete_column)]
         IN  IF IsNone(cell) THEN NoneStrip
             ELSE Ok(Put(event, "athlete_name", Truncate100(strip_html(Strip(Val(cell))))))
    ELSE IF ~IsNone(mapping.first_name_column) /\ Val(mapping.first_name_column) \in DOMAIN row
    THEN LET first_cell == row[Val(mapping.first_name_column)]
             surname_key == IF IsNone(mapping.surname_column) THEN ""
                            ELSE Val(mapping.surname_column)
             surname_cell == Get(row, surname_key, Some(""))
         IN  IF IsNone(first_cell) \/ IsNone(surname_cell) THEN NoneStrip
             ELSE LET first == strip_html(Strip(Val(first_cell)))
                      surname == strip_html(Strip(Val(surname_cell)))
                      full_name == IF surname # "" THEN FullName(first, surname) ELSE first
                  IN  IF full_name # "" THEN Ok(Put(event, "athlete_name", Truncate100(full_name)))
                      ELSE Ok(event)
    ELSE Ok(event)

\* lines 222-229: mapping.gender_column is read for every event that was built
WithGender(mapping, row, event) ==
    IF ~HasAttr(mapping, "gender_column")
    THEN Raise("AttributeError", "'CSVColumnMapping' object has no attribute 'gender_column'")
    ELSE LET gender_col == mapping.gender_column
         IN  IF IsNone(gender_col) \/ Val(gender_col) \notin DOMAIN row THEN Ok(event)
             ELSE IF IsNone(row[Val(gender_col)]) THEN NoneStrip
             ELSE LET gender_val == Lower(Strip(Val(row[Val(gender_col)])))
                  IN  IF gender_val \in {"male", "female"}
                      THEN Ok(Put(event, "gender", gender_val))
                      ELSE Ok(event)

\* lines 153-229.  Ok(Some(event)), Ok(None) for a row without metrics, or the
\* exception raised.
process_row(mapping, row, athlete_id) ==
    LET date_column == mapping.date_column
    IN  IF date_column \notin DOMAIN row
        THEN Raise("ValueError", "Missing required date column")
        ELSE IF IsNone(row[date_column]) THEN NoneStrip
        ELSE IF Strip(Val(row[date_column])) = ""
        THEN Raise("ValueError", "Missing required date column")
        ELSE LET event_date == parse_date_ddmmyyyy(row[date_column])
                 body_mass_kg == BodyMassOf(mapping, row)
                 metrics == extract_metrics(mapping, row)
             IN  IF event_date.kind # "ok" THEN event_date
                 ELSE IF body_mass_kg.kind # "ok" THEN body_mass_kg
                 ELSE IF metrics.kind # "ok" THEN metrics
                 ELSE IF DOMAIN metrics.value = {} THEN Ok(None)
                 ELSE LET with_mass ==
                              IF ~IsNone(body_mass_kg.value)
                              THEN Put(metrics.value, "body_mass_kg", Val(body_mass_kg.value))
                              ELSE metrics.value
                          event == [event_date |-> event_date.value, metrics |-> with_mass]
                          with_athlete == WithAthlete(mapping, row, athlete_id, event)
                      IN  IF with_athlete.kind # "ok" THEN with_athlete
                          ELSE LET with_gender == WithGender(mapping, row, with_athlete.value)
                               IN  IF with_gender.kind # "ok" THEN with_gender
                                   ELSE Ok(Some(with_gender.value))

\* lines 143-149: events and errors after the first i rows of the reader; any
\* exception other than ValueError leaves the loop and the call
RECURSIVE ProcessLoop(_, _, _, _)
ProcessLoop(mapping, rows, athlete_id, i) ==
    IF i = 0 THEN [kind |-> "ok", events |-> <<>>, errors |-> <<>>]
    ELSE LET before == ProcessLoop(mapping, rows, athlete_id, i - 1)
             row_num == i + 1
             event == process_row(mapping, rows[i].row, athlete_id)
         IN  IF before.kind # "ok" THEN before
             ELSE IF event.kind = "ValueError"
             THEN [before EXCEPT !.errors =
                      Append(@, [row |-> row_num, reason |-> event.reason])]
             ELSE IF event.kind # "ok"
             THEN [kind |-> event.kind, reason |-> event.reason,
                   events |-> before.events, errors |-> before.errors]
             ELSE IF IsNone(event.value) THEN before
             ELSE [before EXCEPT !.events = Append(@, Val(event.value))]

\* lines 116-151
process_csv(mapping, csv_content, athlete_id) ==
    LET rows == DictReader(StripBom(csv_content))
    IN  ProcessLoop(mapping, rows, athlete_id, Len(rows))

\* lines 231-273: the warnings, in the order they are appended
validate_csv_structure(mapping, csv_content) ==
    LET fields == Fieldnames(StripBom(csv_content))
        headers == {fields[i] : i \in 1..Len(fields)}
        found_metrics == {i \in 1..Len(mapping.metric_columns) :
                             mapping.metric_columns[i].csv_column \in headers}
    IN  (IF mapping.date_column \notin headers THEN <<"Missing date column: Test Date">>
         ELSE <<>>)
        \o (IF found_metrics = {} THEN <<"No recognized metric columns found">> ELSE <<>>)
        \o (IF mapping.mass_column \notin headers
            THEN <<"Missing body mass column: Body Mass (kg) (optional)">> ELSE <<>>)

----------------------------------------------------------------------------
(* The store and the users *)

\* AuthenticatedUser(id, role), as get_current_user builds it from the profiles
Users ==
    { [id |-> "coach1", role |-> "coach"],
      [id |-> "coach2", role |-> "coach"],
      [id |-> "admin1", role |-> "admin"] }

\* str(current_user) of the dataclass: its repr, which is no user id
StrOfUser(user) ==
    CASE user.id = "coach1" -> "AuthenticatedUser(id=UUID('coach1'), role='coach')"
      [] user.id = "coach2" -> "AuthenticatedUser(id=UUID('coach2'), role='coach')"
      [] user.id = "admin1" -> "AuthenticatedUser(id=UUID('admin1'), role='admin')"

----------------------------------------------------------------------------
(* POST /uploads/csv *)

MAX_ROW_COUNT == 10000

HttpError(code, detail) == [status |-> code, detail |-> detail]

\* the 200 response of an endpoint
Success(body) == [status |-> 200, body |-> body]

\* the answer of the framework to an exception no handler catches
ServerError(exc) == [status |-> 500, detail |-> exc]

\* "date column" in w.lower()
MentionsDateColumn(w) == w = "Missing date column: Test Date"

\* "optional" in w.lower()
MentionsOptional(w) == w = "Missing body mass column: Body Mass (kg) (optional)"

\* line 66 with no warning taken as critical
critical_warnings_none(warnings) == SelectSeq(warnings, LAMBDA w : FALSE)

\* line 66
critical_warnings(warnings) ==
    SelectSeq(warnings, LAMBDA w : MentionsDateColumn(w) /\ ~MentionsOptional(w))

\* lines 97-103: the first gender seen for every athlete name
RECURSIVE GenderPrescan(_, _)
GenderPrescan(events, i) ==
    IF i = 0 THEN EmptyDict
    ELSE LET before == GenderPrescan(events, i - 1)
             event == events[i]
         IN  IF "athlete_name" \in DOMAIN event /\ event.athlete_name # ""
                /\ "gender" \in DOMAIN event /\ event.athlete_name \notin DOMAIN before
             THEN Put(before, event.athlete_name, event.gender)
             ELSE before

\* lines 166-171: the event joins the batch under the resolved athlete id
Batched(st, event, id) ==
    [st EXCEPT !.batch_list = Append(@, [athlete_id |-> id,
                                         event_date |-> event.event_date,
                                         metrics |-> event.metrics])]

\* lines 172-182: the event is given up with an error entry
Failed(st, reason) ==
    [st EXCEPT !.errors = Append(@, [row |-> 0, reason |-> reason])]

\* lines 139-164: the athlete of a name not in the cache is looked up for the
\* coach and created when the lookup finds none
LookupOrCreate(st, event, coach, athlete_gender, faults) ==
    LET athlete_name == event.athlete_name
        looked == [st EXCEPT !.trace = Append(@, "select athletes")]
        found == SelectSeq(st.athletes, LAMBDA a :
                     a.coach_id = coach /\ a.name = athlete_name)
        new_id == Len(st.athletes) + 1
        inserting == [looked EXCEPT !.trace = Append(@, "insert athletes")]
        created == [inserting EXCEPT
                      !.athletes = Append(@, [id |-> new_id, coach_id |-> coach,
                                              name |-> athlete_name,
                                              gender |-> Get(athlete_gender,
                                                             athlete_name, "male")]),
                      !.cache = Put(@, athlete_name, new_id)]
    IN  IF faults.select THEN Failed(looked, "Error resolving athlete")
        ELSE IF Len(found) > 0
        THEN Batched([looked EXCEPT !.cache = Put(@, athlete_name, found[1].id)],
                     event, found[1].id)
        ELSE IF faults.insert_athlete THEN Failed(inserting, "Error resolving athlete")
        ELSE Batched(created, event, new_id)

\* lines 126-182: one turn of the resolving loop.
\* st = [athletes, events, cache, batch_list, errors, trace, processed]; faults
\* says which kinds of store call raise during this request.
ResolveEvent(st, event, athlete_id, coach, athlete_gender, faults) ==
    IF ~IsNone(athlete_id) THEN Batched(st, event, Val(athlete_id))
    ELSE IF "athlete_name" \notin DOMAIN event
    THEN Failed(st, "No athlete ID or name for event")
    ELSE IF event.athlete_name \in DOMAIN st.cache
    THEN Batched(st, event, st.cache[event.athlete_name])
    ELSE LookupOrCreate(st, event, coach, athlete_gender, faults)

\* lines 124-182: the state of the resolving loop after the first i events
RECURSIVE ResolveLoop(_, _, _, _, _, _, _)
ResolveLoop(events, athlete_id, coach, athlete_gender, faults, st0, i) ==
    IF i = 0 THEN st0
    ELSE ResolveEvent(ResolveLoop(events, athlete_id, coach, athlete_gender, faults,
                                  st0, i - 1),
                      events[i], athlete_id, coach, athlete_gender, faults)

\* lines 191-199: one single insert after a failed batch insert
SingleInsert(st, event_data, fails) ==
    LET tried == [st EXCEPT !.trace = Append(@, "insert performance_events")]
    IN  IF fails
        THEN [tried EXCEPT !.errors = Append(@, [row |-> 0, reason |-> "Database error"])]
        ELSE [tried EXCEPT !.processed = @ + 1,
                           !.events = Append(@, event_data @@ [id |-> Len(st.events) + 1])]

\* lines 191-199: the single inserts of the first i events of the batch
RECURSIVE SingleInserts(_, _, _, _)
SingleInserts(batch_list, faults, st0, i) ==
    IF i = 0 THEN st0
    ELSE SingleInsert(SingleInserts(batch_list, faults, st0, i - 1), batch_list[i],
                      i \in faults.insert_single)

\* lines 184-199
InsertBatch(batch_list, faults, st) ==
    IF Len(batch_list) = 0 THEN st
    ELSE IF ~faults.insert_batch
    THEN [st EXCEPT
            !.trace = Append(@, "insert performance_events"),
            !.processed = Len(batch_list),
            !.events = @ \o [i \in 1..Len(batch_list) |->
                                batch_list[i] @@ [id |-> Len(st.events) + i]]]
    ELSE SingleInserts(batch_list, faults,
                       [st EXCEPT !.trace = Append(@, "insert performance_events")],
                       Len(batch_list))

\* what upload_csv hands back: the response, the two tables as the call leaves
\* them, and the helper and store calls made, in order
Done(resp, store, trace) ==
    [resp |-> resp, athletes |-> store.athletes, events |-> store.events,
     trace |-> trace]

\* lines 201-205
Created(stored, athlete_id) ==
    [resp |-> [status |-> 201, processed |-> stored.processed,
               errors |-> stored.errors, athlete_id |-> athlete_id],
     athletes |-> stored.athletes, events |-> stored.events, trace |-> stored.trace]

\* lines 97-205: the part of upload_csv that works on the store
StoreEvents(events, errors, athlete_id, coach, store, faults, trace) ==
    LET checked == IF IsNone(athlete_id) THEN trace ELSE Append(trace, "select athletes")
        athlete_check == SelectSeq(store.athletes, LAMBDA a :
                             a.id = Val(athlete_id) /\ a.coach_id = coach)
        st0 == [athletes |-> store.athletes, events |-> store.events,
                cache |-> EmptyDict, batch_list |-> <<>>, errors |-> errors,
                trace |-> checked, processed |-> 0]
        resolved == ResolveLoop(events, athlete_id, coach,
                                GenderPrescan(events, Len(events)), faults, st0,
                                Len(events))
    IN  IF ~IsNone(athlete_id) /\ faults.select
        THEN Done(ServerError("APIError"), store, checked)
        ELSE IF ~IsNone(athlete_id) /\ Len(athlete_check) = 0
        THEN Done(HttpError(404, "Athlete not found"), store, checked)
        ELSE Created(InsertBatch(resolved.batch_list, faults, resolved), athlete_id)

\* lines 73-95: what upload_csv does with the outcome of process_csv
AfterProcessCsv(processed, athlete_id, coach, store, configured, faults) ==
    LET trace == <<"validate_csv_structure", "process_csv">>
    IN  IF processed.kind # "ok" THEN Done(ServerError(processed.kind), store, trace)
        ELSE IF Len(processed.events) = 0 /\ Len(processed.errors) = 0
        THEN Done(HttpError(400, "No valid data found in CSV"), store, trace)
        ELSE IF Len(processed.events) > MAX_ROW_COUNT
        THEN Done(HttpError(400, "Too many rows"), store, trace)
        ELSE IF ~configured
        THEN Done(HttpError(503, "Database not configured"), store, trace)
        ELSE StoreEvents(processed.events, processed.errors, athlete_id, coach, store,
                         faults, trace)

\* lines 24-205.  file = [filename_csv, too_large, utf8, csv_content].
upload_csv(file, athlete_id, current_user, store, configured, faults) ==
    LET critical == critical_warnings(validate_csv_structure(DefaultMapping,
                                                             file.csv_content))
    IN  IF ~file.filename_csv
        THEN Done(HttpError(400, "File must be a CSV file"), store, <<>>)
        ELSE IF file.too_large THEN Done(HttpError(400, "File too large"), store, <<>>)
        ELSE IF ~file.utf8
        THEN Done(HttpError(400, "File must be UTF-8 encoded"), store, <<>>)
        ELSE IF Len(critical) > 0
        THEN Done(HttpError(400, critical[1]), store, <<"validate_csv_structure">>)
        ELSE AfterProcessCsv(process_csv(DefaultMapping, file.csv_content, athlete_id),
                             athlete_id, StrOfUser(current_user), store, configured,
                             faults)

----------------------------------------------------------------------------
(* The analysis endpoints.  A stored event is [id, athlete_id, event_date,   *)
(* metrics]; metrics holds numbers (hundredths) under the metric keys and    *)
(* body_mass_kg, and a text under test_type.                                 *)

\* float(metrics[metric]): None where it raises ValueError
ToFloat(metrics, metric) ==
    IF metric = "test_type" THEN FloatOf(metrics[metric]) ELSE Some(metrics[metric])

\* the chronological rank of an ISO date
IsoOrdinal(text) ==
    CASE text = "2024-01-13" -> 13
      [] text = "2024-01-15" -> 15
      [] text = "2024-01-16" -> 16
      [] text = "2024-01-17" -> 17

\* an f-string label "kind:value"
Label(kind, value) == <<kind, ":", value>>

\* admin_pool.py lines 58-66: the athletes of the first i admin profiles
RECURSIVE AdminAthletesLoop(_, _, _)
AdminAthletesLoop(store, admin_user_ids, i) ==
    IF i = 0 THEN <<>>
    ELSE AdminAthletesLoop(store, admin_user_ids, i - 1)
         \o SelectSeq(store.athletes, LAMBDA a : a.coach_id = admin_user_ids[i].id)

\* admin_pool.py lines 40-68
get_admin_athletes(store) ==
    LET admin_profiles == SelectSeq(store.profiles, LAMBDA p : p.role = "admin")
    IN  AdminAthletesLoop(store, admin_profiles, Len(admin_profiles))

\* .in_("athlete_id", athlete_ids) on performance_events
EventsOfAthletes(store, athletes) ==
    SelectSeq(store.events, LAMBDA e : \E i \in DOMAIN athletes : athletes[i].id = e.athlete_id)

\* the loop of lines 153-171 that lets an event without body_mass_kg through the
\* mass-band filter
RECURSIVE MetricValues_massless(_, _, _, _)
MetricValues_massless(events, metric, band, i) ==
    IF i = 0 THEN <<>>
    ELSE LET before == MetricValues_massless(events, metric, band, i - 1)
             metrics == events[i].metrics
         IN  IF /\ ~IsNone(band) /\ "body_mass_kg" \in DOMAIN metrics
                /\ get_mass_band(metrics.body_mass_kg) # Val(band)
             THEN before
             ELSE IF metric \notin DOMAIN metrics THEN before
             ELSE IF IsNone(ToFloat(metrics, metric)) THEN before
             ELSE Append(before, Val(ToFloat(metrics, metric)))

\* lines 153-171 / 327-343: the values of the metric in the first i events,
\* within the mass band when one is given
RECURSIVE MetricValues(_, _, _, _)
MetricValues(events, metric, band, i) ==
    IF i = 0 THEN <<>>
    ELSE LET before == MetricValues(events, metric, band, i - 1)
             metrics == events[i].metrics
         IN  IF ~IsNone(band) /\ "body_mass_kg" \notin DOMAIN metrics THEN before
             ELSE IF ~IsNone(band) /\ get_mass_band(metrics.body_mass_kg) # Val(band)
             THEN before
             ELSE IF metric \notin DOMAIN metrics THEN before
             ELSE IF IsNone(ToFloat(metrics, metric)) THEN before
             ELSE Append(before, Val(ToFloat(metrics, metric)))

\* an empty result answered as a failure instead of lines 115-119
EmptyBenchmark_rejected(reference_group, metric) ==
    HttpError(404, "No data in reference group for this metric")

\* lines 115-119, 131-135, 146-150, 174-178
EmptyBenchmark(reference_group, metric) ==
    Success([mean |-> None, std_dev |-> None, mode |-> None, ci_lower |-> None,
             ci_upper |-> None, count |-> 0, reference_group |-> <<reference_group>>,
             metric |-> metric])

\* lines 61-192.  gender and mass_band are Optional query parameters.
get_benchmarks(metric, reference_group, gender, mass_band, benchmark_source, current_user, store, configured) ==
    LET athletes_data ==
            IF benchmark_source = "boxing_science" THEN get_admin_athletes(store)
            ELSE SelectSeq(store.athletes, LAMBDA a : a.coach_id = current_user.id)
        athlete_ids ==
            IF reference_group = "gender"
            THEN SelectSeq(athletes_data, LAMBDA a : a.gender = Val(gender))
            ELSE athletes_data
        events == EventsOfAthletes(store, athlete_ids)
        values == MetricValues(events, metric,
                               IF reference_group = "mass_band" THEN mass_band ELSE None,
                               Len(events))
        benchmarks == Val(calculate_benchmarks(values))
    IN  IF ~configured THEN HttpError(503, "Database not configured")
        ELSE IF reference_group = "gender" /\ IsNone(gender)
        THEN HttpError(400, "Gender parameter required when reference_group=gender")
        ELSE IF reference_group = "mass_band" /\ (IsNone(mass_band) \/ Val(mass_band) = "")
        THEN HttpError(400, "Mass band parameter required when reference_group=mass_band")
        ELSE IF Len(athletes_data) = 0 THEN EmptyBenchmark(reference_group, metric)
        ELSE IF Len(athlete_ids) = 0 THEN EmptyBenchmark(reference_group, metric)
        ELSE IF Len(events) = 0 THEN EmptyBenchmark(reference_group, metric)
        ELSE IF Len(values) = 0 THEN EmptyBenchmark(reference_group, metric)
        ELSE Success([mean |-> benchmarks.mean, std_dev |-> benchmarks.std_dev,
                      mode |-> benchmarks.mode, ci_lower |-> benchmarks.ci_lower,
                      ci_upper |-> benchmarks.ci_upper, count |-> benchmarks.count,
                      reference_group |-> <<reference_group>>, metric |-> metric])

\* admin_pool.py lines 46-66: the tables get_admin_athletes queries, in order
get_admin_athletes_queries(store) ==
    LET admin_profiles == SelectSeq(store.profiles, LAMBDA p : p.role = "admin")
    IN  <<"profiles">> \o [i \in 1..Len(admin_profiles) |-> "athletes"]

\* lines 102-112: the tables the athlete lookup of an endpoint queries
AthleteQueries(benchmark_source, store) ==
    IF benchmark_source = "boxing_science" THEN get_admin_athletes_queries(store)
    ELSE <<"athletes">>

\* the athlete lookup and the event query issued ahead of lines 89-100
get_benchmarks_queries_unvalidated(reference_group, gender, mass_band, benchmark_source, current_user, store, configured) ==
    IF ~configured THEN <<>>
    ELSE AthleteQueries(benchmark_source, store) \o <<"performance_events">>

\* lines 82-143: the tables get_benchmarks queries before it answers, in order
get_benchmarks_queries(reference_group, gender, mass_band, benchmark_source, current_user, store, configured) ==
    LET athletes_data ==
            IF benchmark_source = "boxing_science" THEN get_admin_athletes(store)
            ELSE SelectSeq(store.athletes, LAMBDA a : a.coach_id = current_user.id)
        athlete_ids ==
            IF reference_group = "gender"
            THEN SelectSeq(athletes_data, LAMBDA a : a.gender = Val(gender))
            ELSE athletes_data
    IN  IF ~configured THEN <<>>
        ELSE IF reference_group = "gender" /\ IsNone(gender) THEN <<>>
        ELSE IF reference_group = "mass_band" /\ (IsNone(mass_band) \/ Val(mass_band) = "")
        THEN <<>>
        ELSE IF Len(athletes_data) = 0 THEN AthleteQueries(benchmark_source, store)
        ELSE IF Len(athlete_ids) = 0 THEN AthleteQueries(benchmark_source, store)
        ELSE AthleteQueries(benchmark_source, store) \o <<"performance_events">>

\* a response together with the queries the handler issued for it
Queried(resp, queries) ==
    IF "body" \in DOMAIN resp
    THEN [status |-> resp.status, body |-> resp.body, queries |-> queries]
    ELSE [status |-> resp.status, detail |-> resp.detail, queries |-> queries]

\* the event query without the id filter of lines 241-247: always the latest
TargetEvents_latest(store, athlete_id, event_id) ==
    LET own == SelectSeq(store.events, LAMBDA e : e.athlete_id = athlete_id)
    IN  SelectSeq(own, LAMBDA e :
            \A i \in DOMAIN own :
                IsoOrdinal(own[i].event_date) <= IsoOrdinal(e.event_date))

\* lines 240-256: the rows of the event query, the given event of the athlete or
\* the athlete's latest event
TargetEvents(store, athlete_id, event_id) ==
    LET own == SelectSeq(store.events, LAMBDA e : e.athlete_id = athlete_id)
    IN  IF ~IsNone(event_id) THEN SelectSeq(own, LAMBDA e : e.id = Val(event_id))
        ELSE SelectSeq(own, LAMBDA e :
                 \A i \in DOMAIN own :
                     IsoOrdinal(own[i].event_date) <= IsoOrdinal(e.event_date))

\* the reference athletes without the coach_id filter of lines 297-301
ReferenceAthletes_all(store, benchmark_source, gender_filter, current_user) ==
    LET pool == IF benchmark_source = "boxing_science" THEN get_admin_athletes(store)
                ELSE store.athletes
    IN  IF IsNone(gender_filter) THEN pool
        ELSE SelectSeq(pool, LAMBDA a : a.gender = Val(gender_filter))

\* lines 292-308 / 438-451: the reference athletes of the Z-score endpoints
ReferenceAthletes(store, benchmark_source, gender_filter, current_user) ==
    LET pool == IF benchmark_source = "boxing_science" THEN get_admin_athletes(store)
                ELSE SelectSeq(store.athletes, LAMBDA a : a.coach_id = current_user.id)
    IN  IF IsNone(gender_filter) THEN pool
        ELSE SelectSeq(pool, LAMBDA a : a.gender = Val(gender_filter))

\* lines 195-376
get_athlete_zscore(athlete_id, metric, event_id, reference_group, benchmark_source, current_user, store, configured) ==
    LET athlete_result == SelectSeq(store.athletes, LAMBDA a :
                              a.id = athlete_id /\ a.coach_id = current_user.id)
        athlete_gender == athlete_result[1].gender
        event_result == TargetEvents(store, athlete_id, event_id)
        event_metrics == event_result[1].metrics
        athlete_value == ToFloat(event_metrics, metric)
        athlete_mass == IF "body_mass_kg" \in DOMAIN event_metrics
                        THEN Some(event_metrics.body_mass_kg) ELSE None
        gender_filter == IF reference_group = "gender" THEN Some(athlete_gender) ELSE None
        mass_band_filter == IF reference_group = "mass_band"
                            THEN Some(get_mass_band(Val(athlete_mass))) ELSE None
        ref_athletes_data == ReferenceAthletes(store, benchmark_source, gender_filter,
                                               current_user)
        events == EventsOfAthletes(store, ref_athletes_data)
        values == MetricValues(events, metric, mass_band_filter, Len(events))
        mean == calculate_mean(values)
        std_dev == calculate_std_dev(values, TRUE)
        ref_group_label ==
            IF ~IsNone(mass_band_filter) THEN Label("mass_band", Val(mass_band_filter))
            ELSE IF ~IsNone(gender_filter) THEN Label("gender", Val(gender_filter))
            ELSE <<reference_group>>
    IN  IF ~configured THEN HttpError(503, "Database not configured")
        ELSE IF Len(athlete_result) = 0 THEN HttpError(404, "Athlete not found")
        ELSE IF Len(event_result) = 0 THEN HttpError(404, "No events found for athlete")
        ELSE IF metric \notin DOMAIN event_metrics
        THEN HttpError(404, <<"Metric '", metric, "' not found in event">>)
        ELSE IF IsNone(athlete_value) THEN ServerError("ValueError")
        ELSE IF reference_group = "mass_band" /\ IsNone(athlete_mass)
        THEN HttpError(400, "Body mass required for mass band reference group")
        ELSE IF Len(ref_athletes_data) = 0
        THEN HttpError(400, "No athletes in reference group")
        ELSE IF Len(values) = 0
        THEN HttpError(400, "No data in reference group for this metric")
        ELSE IF IsNone(mean) \/ IsNone(std_dev)
        THEN HttpError(400, "Insufficient data to calculate Z-score")
        ELSE Success([value |-> Val(athlete_value),
                      z_score |-> calculate_z_score(Val(athlete_value), Val(mean),
                                                    Val(std_dev)),
                      mean |-> Val(mean), std_dev |-> Val(std_dev),
                      reference_group |-> ref_group_label, metric |-> metric])

\* lines 466-480: the reference values of the bulk endpoint; for mass_band only
\* the presence of a body mass is asked here
RECURSIVE BulkRefValues(_, _, _, _)
BulkRefValues(events, metric, reference_group, i) ==
    IF i = 0 THEN <<>>
    ELSE LET before == BulkRefValues(events, metric, reference_group, i - 1)
             metrics == events[i].metrics
         IN  IF reference_group = "mass_band" /\ "body_mass_kg" \notin DOMAIN metrics
             THEN before
             ELSE IF metric \notin DOMAIN metrics THEN before
             ELSE IF IsNone(ToFloat(metrics, metric)) THEN before
             ELSE Append(before, Val(ToFloat(metrics, metric)))

\* the loop of lines 495-550 without the mass-band branch of lines 506-538:
\* every entry carries the shared statistics
RECURSIVE BulkResults_shared(_, _, _, _, _, _, _, _)
BulkResults_shared(athlete_events, ref_events, metric, reference_group, mean, std_dev, ref_group_label, i) ==
    IF i = 0 THEN EmptyDict
    ELSE LET results == BulkResults_shared(athlete_events, ref_events, metric,
                                           reference_group, mean, std_dev,
                                           ref_group_label, i - 1)
             event == athlete_events[i]
             value == ToFloat(event.metrics, metric)
         IN  IF metric \notin DOMAIN event.metrics THEN results
             ELSE IF IsNone(value) THEN results
             ELSE Put(results, event.id,
                      [value |-> Val(value),
                       z_score |-> calculate_z_score(Val(value), mean, std_dev),
                       mean |-> mean, std_dev |-> std_dev,
                       reference_group |-> ref_group_label, metric |-> metric])

\* lines 495-550: the results after the first i events of the athlete
RECURSIVE BulkResults(_, _, _, _, _, _, _, _)
BulkResults(athlete_events, ref_events, metric, reference_group, mean, std_dev, ref_group_label, i) ==
    IF i = 0 THEN EmptyDict
    ELSE LET results == BulkResults(athlete_events, ref_events, metric, reference_group,
                                    mean, std_dev, ref_group_label, i - 1)
             event == athlete_events[i]
             event_metrics == event.metrics
             value == ToFloat(event_metrics, metric)
             mass_band_filter == get_mass_band(event_metrics.body_mass_kg)
             mb_values == MetricValues(ref_events, metric, Some(mass_band_filter),
                                       Len(ref_events))
             mb_mean == calculate_mean(mb_values)
             mb_std == calculate_std_dev(mb_values, TRUE)
         IN  IF metric \notin DOMAIN event_metrics THEN results
             ELSE IF IsNone(value) THEN results
             ELSE IF reference_group = "mass_band"
             THEN IF "body_mass_kg" \notin DOMAIN event_metrics THEN results
                  ELSE IF Len(mb_values) = 0 THEN results
                  ELSE IF IsNone(mb_mean) \/ IsNone(mb_std) THEN results
                  ELSE Put(results, event.id,
                           [value |-> Val(value),
                            z_score |-> calculate_z_score(Val(value), Val(mb_mean),
                                                          Val(mb_std)),
                            mean |-> Val(mb_mean), std_dev |-> Val(mb_std),
                            reference_group |-> Label("mass_band", mass_band_filter),
                            metric |-> metric])
             ELSE Put(results, event.id,
                      [value |-> Val(value),
                       z_score |-> calculate_z_score(Val(value), mean, std_dev),
                       mean |-> mean, std_dev |-> std_dev,
                       reference_group |-> ref_group_label, metric |-> metric])

\* lines 379-552
get_athlete_zscores_bulk(athlete_id, metric, reference_group, benchmark_source, current_user, store, configured) ==
    LET athlete_result == SelectSeq(store.athletes, LAMBDA a :
                              a.id = athlete_id /\ a.coach_id = current_user.id)
        athlete_gender == athlete_result[1].gender
        athlete_events == SelectSeq(store.events, LAMBDA e : e.athlete_id = athlete_id)
        gender_filter == IF reference_group = "gender" THEN Some(athlete_gender) ELSE None
        ref_athletes_data == ReferenceAthletes(store, benchmark_source, gender_filter,
                                               current_user)
        ref_events == EventsOfAthletes(store, ref_athletes_data)
        ref_values == BulkRefValues(ref_events, metric, reference_group, Len(ref_events))
        mean == calculate_mean(ref_values)
        std_dev == calculate_std_dev(ref_values, TRUE)
        ref_group_label == IF ~IsNone(gender_filter) THEN Label("gender", Val(gender_filter))
                           ELSE <<reference_group>>
    IN  IF ~configured THEN HttpError(503, "Database not configured")
        ELSE IF Len(athlete_result) = 0 THEN HttpError(404, "Athlete not found")
        ELSE IF Len(athlete_events) = 0 THEN Success(EmptyDict)
        ELSE IF Len(ref_athletes_data) = 0 THEN Success(EmptyDict)
        ELSE IF Len(ref_values) = 0 THEN Success(EmptyDict)
        ELSE IF IsNone(mean) \/ IsNone(std_dev) THEN Success(EmptyDict)
        ELSE Success(BulkResults(athlete_events, ref_events, metric, reference_group,
                                 Val(mean), Val(std_dev), ref_group_label,
                                 Len(athlete_events)))

----------------------------------------------------------------------------
(* The CSV texts explored *)

MaxRows == 2

HeaderChoices ==
    { <<"Test Date", "Body Mass (kg)", "CMJ Height (cm)">>,
      <<"CMJ Height (cm)", "Test Date", "SJ Height (cm)">>,
      <<"Athlete", "Body Mass (kg)", "CMJ Height (cm)">>,
      <<"Test Date", "Athlete", "CMJ Height (cm)">>,
      <<>> }

\* data lines, cell by cell; <<>> is a blank line
LineChoices ==
    { <<>>,
      <<"15/01/2024", "75.5", "45.2">>,
      <<"15/01/2024", "<b>John Doe</b>", "45.2">>,
      <<"15/01/2024", "301", "45.2">>,
      <<"600", "15/01/2024", "41.0">>,
      <<" 17.01.2024 ", "not-a-number", " 46.1 ">>,
      <<"16-01-2024", "not-a-number", "not-a-number">>,
      <<"13/01/2024", "301", "600">>,
      <<"invalid-date", "72.0", "41.0">>,
      <<"2024-01-15", "NA", "">>,
      <<"", "75.5", "45.2">>,
      <<"  ", "", "-1">>,
      <<"15/01/2024">>,
      <<"16-01-2024", "75.5">>,
      <<"45.2", "15/01/2024", "41.0", "extra">> }

CsvChoices ==
    [bom : BOOLEAN, lines : {<<>>}]
    \cup { [bom |-> b, lines |-> <<h>> \o rows] :
             b \in BOOLEAN, h \in HeaderChoices, rows \in SeqsUpTo(LineChoices, MaxRows) }

AthleteIdChoices == {None, Some(1)}

----------------------------------------------------------------------------
(* State machine *)

Idle == [op |-> "none"]

EmptyDb == [profiles |-> <<>>, athletes |-> <<>>, events |-> <<>>]

Init ==
    /\ call = Idle
    /\ ret = Idle
    /\ db = EmptyDb

\* The result was handed to the caller: nothing of a call outlives it, the next
\* call starts from the same idle state.
Return ==
    /\ call # Idle
    /\ call' = Idle
    /\ ret' = Idle
    /\ UNCHANGED db

\* TrainingLoadEngine.analyze(sessions, days, target_date)
Analyze ==
    /\ call = Idle
    /\ \E sessions \in SeqsUpTo(SessionChoices, MaxSessions), days \in 1..MaxDays :
          /\ call' = [op |-> "analyze", sessions |-> sessions, days |-> days,
                      target_date |-> TargetDate]
          /\ ret' = analyze(sessions, days, TargetDate)
    /\ UNCHANGED db

\* TrainingLoadEngine.calculate_daily_loads(sessions, start_date, end_date)
CalculateDailyLoads ==
    /\ call = Idle
    /\ \E sessions \in SeqsUpTo(SessionChoices, MaxSessions),
          start_date \in (TargetDate - 8)..TargetDate,
          end_date \in {TargetDate - 1, TargetDate} :
          /\ call' = [op |-> "calculate_daily_loads", sessions |-> sessions,
                      start_date |-> start_date, end_date |-> end_date]
          /\ ret' = [daily_loads |-> calculate_daily_loads(sessions, start_date, end_date)]
    /\ UNCHANGED db

\* TrainingLoadEngine.calculate_weekly_load(daily_loads, target_date)
CalculateWeeklyLoad ==
    /\ call = Idle
    /\ \E daily_loads \in DailyLoadChoices :
          /\ call' = [op |-> "calculate_weekly_load", daily_loads |-> daily_loads,
                      target_date |-> TargetDate]
          /\ ret' = [value |-> calculate_weekly_load(daily_loads, TargetDate)]
    /\ UNCHANGED db

\* TrainingLoadEngine.calculate_monotony(daily_loads, target_date)
CalculateMonotony ==
    /\ call = Idle
    /\ \E daily_loads \in DailyLoadChoices :
          /\ call' = [op |-> "calculate_monotony", daily_loads |-> daily_loads,
                      target_date |-> TargetDate]
          /\ ret' = [value |-> calculate_monotony(daily_loads, TargetDate)]
    /\ UNCHANGED db

\* TrainingLoadEngine.calculate_acwr(daily_loads, target_date)
CalculateAcwr ==
    /\ call = Idle
    /\ \E daily_loads \in DailyLoadChoices :
          /\ call' = [op |-> "calculate_acwr", daily_loads |-> daily_loads,
                      target_date |-> TargetDate]
          /\ ret' = [value |-> calculate_acwr(daily_loads, TargetDate)]
    /\ UNCHANGED db

\* CSVIngestionService().process_csv(csv_content, athlete_id)
ProcessCsv ==
    /\ call = Idle
    /\ \E csv_content \in CsvChoices, athlete_id \in AthleteIdChoices :
          /\ call' = [op |-> "process_csv", csv_content |-> csv_content,
                      athlete_id |-> athlete_id]
          /\ ret' = process_csv(DefaultMapping, csv_content, athlete_id)
    /\ UNCHANGED db

\* CSVIngestionService().validate_csv_structure(csv_content)
ValidateCsvStructure ==
    /\ call = Idle
    /\ \E csv_content \in CsvChoices :
          /\ call' = [op |-> "validate_csv_structure", csv_content |-> csv_content]
          /\ ret' = [warnings |-> validate_csv_structure(DefaultMapping, csv_content)]
    /\ UNCHANGED db

NextCsv == ProcessCsv \/ ValidateCsvStructure \/ Return

SpecCsv == Init /\ [][NextCsv]_vars

NextLoad ==
    \/ Analyze \/ CalculateDailyLoads
    \/ CalculateWeeklyLoad \/ CalculateMonotony \/ CalculateAcwr
    \/ Return

SpecLoad == Init /\ [][NextLoad]_vars

----------------------------------------------------------------------------
(* POST /uploads/csv as a step of the system *)

UploadHeaderChoices ==
    { <<"Test Date", "Body Mass (kg)", "CMJ Height (cm)">>,
      <<"Test Date", "Athlete", "CMJ Height (cm)">>,
      <<"Athlete", "Body Mass (kg)", "CMJ Height (cm)">>,
      <<>> }

UploadLineChoices ==
    { <<"15/01/2024", "John Doe", "45.2">>,
      <<"invalid-date", "72.0", "41.0">>,
      <<"16-01-2024", "not-a-number", "not-a-number">>,
      <<"", "75.5", "45.2">> }

UploadCsvChoices ==
    [bom : BOOLEAN, lines : {<<>>}]
    \cup { [bom |-> b, lines |-> <<h>> \o rows] :
             b \in BOOLEAN, h \in UploadHeaderChoices,
             rows \in SeqsUpTo(UploadLineChoices, MaxRows) }

\* the uploaded file: a readable CSV file, or one rejected before it is parsed
FileChoices ==
    { [filename_csv |-> TRUE, too_large |-> FALSE, utf8 |-> TRUE, csv_content |-> c] :
        c \in UploadCsvChoices }
    \cup { [filename_csv |-> f, too_large |-> l, utf8 |-> u,
            csv_content |-> [bom |-> FALSE, lines |-> <<>>]] :
             f \in BOOLEAN, l \in BOOLEAN, u \in BOOLEAN }

\* which store calls raise during one request
FaultChoices ==
    { [select |-> s, insert_athlete |-> a, insert_batch |-> b, insert_single |-> i] :
        s \in BOOLEAN, a \in {FALSE}, b \in {FALSE}, i \in {{}} }
    \cup { [select |-> FALSE, insert_athlete |-> TRUE, insert_batch |-> FALSE,
            insert_single |-> {}],
           [select |-> FALSE, insert_athlete |-> FALSE, insert_batch |-> TRUE,
            insert_single |-> {1}] }

\* the profiles table: one profile per user
Profiles ==
    << [id |-> "coach1", role |-> "coach"],
       [id |-> "coach2", role |-> "coach"],
       [id |-> "admin1", role |-> "admin"] >>

\* stores an upload can meet: no athlete, an athlete of coach1, and that athlete
\* with an event on 2024-01-15
UploadStores ==
    LET john == [id |-> 1, coach_id |-> "coach1", name |-> "John Doe", gender |-> "male"]
        tested == [id |-> 1, athlete_id |-> 1, event_date |-> "2024-01-15",
                   metrics |-> [test_type |-> "CMJ", height_cm |-> 4520]]
    IN  { [profiles |-> Profiles, athletes |-> <<>>, events |-> <<>>],
          [profiles |-> Profiles, athletes |-> <<john>>, events |-> <<>>],
          [profiles |-> Profiles, athletes |-> <<john>>, events |-> <<tested>>] }

InitUpload ==
    /\ call = Idle
    /\ ret = Idle
    /\ db \in UploadStores

\* upload_csv(request, file, athlete_id, current_user) against the store
UploadCsv ==
    /\ call = Idle
    /\ \E file \in FileChoices, athlete_id \in AthleteIdChoices, current_user \in Users,
          configured \in BOOLEAN, faults \in FaultChoices :
           LET result == upload_csv(file, athlete_id, current_user, db, configured, faults)
           IN  /\ call' = [op |-> "upload_csv", file |-> file, athlete_id |-> athlete_id,
                           current_user |-> current_user, configured |-> configured,
                           faults |-> faults, store |-> db]
               /\ ret' = result
               /\ db' = [db EXCEPT !.athletes = result.athletes,
                                   !.events = result.events]

NextUpload == UploadCsv \/ Return

SpecUpload == InitUpload /\ [][NextUpload]_vars

----------------------------------------------------------------------------
(* StatEngine as steps of the system *)

\* the longest list of values handed to a statistic
MaxValues == 5

\* values of a metric, around 41.0
BenchmarkValueChoices == {4000, 4100, 4200}

\* values that round to a tenth of their own, to a neighbour's tenth, and one
\* halfway between two tenths
ModeValueChoices == {100, 104, 105, 200, 300}

\* StatEngine.calculate_benchmarks(values)
CalculateBenchmarks ==
    /\ call = Idle
    /\ \E values \in SeqsUpTo(BenchmarkValueChoices, MaxValues) :
          /\ call' = [op |-> "calculate_benchmarks", values |-> values]
          /\ ret' = [value |-> calculate_benchmarks(values)]
    /\ UNCHANGED db

\* StatEngine.calculate_mode(values)
CalculateMode ==
    /\ call = Idle
    /\ \E values \in SeqsUpTo(ModeValueChoices, MaxValues) :
          /\ call' = [op |-> "calculate_mode", values |-> values]
          /\ ret' = [value |-> calculate_mode(values)]
    /\ UNCHANGED db

\* a value, a mean and a standard deviation of a metric
ZScoreValueChoices == {3900, 4000, 4100, 4147}

ZScoreStdDevChoices == {0, 47, 50, 100}

\* StatEngine.calculate_z_score(value, mean, std_dev)
CalculateZScore ==
    /\ call = Idle
    /\ \E value \in ZScoreValueChoices, mean \in ZScoreValueChoices,
          std_dev \in ZScoreStdDevChoices :
          /\ call' = [op |-> "calculate_z_score", value |-> value, mean |-> mean,
                      std_dev |-> std_dev]
          /\ ret' = [value |-> calculate_z_score(value, mean, std_dev)]
    /\ UNCHANGED db

\* body masses at, just below and inside band boundaries
MassChoices ==
    {0, 499, 500, 4800, 5200, 6500, 6990, 6999, 7000, 7250, 7490, 7500, 9500,
     10000, 10500}

\* StatEngine.get_mass_band(mass_kg)
GetMassBand ==
    /\ call = Idle
    /\ \E mass_kg \in MassChoices :
          /\ call' = [op |-> "get_mass_band", mass_kg |-> mass_kg]
          /\ ret' = [value |-> get_mass_band(mass_kg)]
    /\ UNCHANGED db

NextStat ==
    \/ CalculateBenchmarks \/ CalculateMode \/ CalculateZScore \/ GetMassBand
    \/ Return

SpecStat == Init /\ [][NextStat]_vars

----------------------------------------------------------------------------
(* The analysis endpoints as steps of the system *)

MaxEvents == 2

\* athletes of coach1 (a man and a woman) and of the admin
Roster ==
    << [id |-> 1, coach_id |-> "coach1", name |-> "John Doe", gender |-> "male"],
       [id |-> 2, coach_id |-> "coach1", name |-> "Jane Doe", gender |-> "female"],
       [id |-> 3, coach_id |-> "admin1", name |-> "Pool Athlete", gender |-> "male"] >>

RosterChoices == {SubSeq(Roster, 1, 0), SubSeq(Roster, 1, 1), Roster}

\* metrics of a stored event: with and without the metric, with and without a
\* body mass, in two mass bands
MetricsChoices ==
    { [test_type |-> "CMJ", height_cm |-> 4000, body_mass_kg |-> 7200],
      [test_type |-> "CMJ", height_cm |-> 4100, body_mass_kg |-> 7700],
      [test_type |-> "CMJ", height_cm |-> 4100],
      [test_type |-> "SJ", body_mass_kg |-> 7200] }

EventDates == <<"2024-01-15", "2024-01-16", "2024-01-17">>

\* the events table made of the drawn events: ids in table order, dates ascending
\* or descending along the table
EventsTable(drawn, newest_first) ==
    [i \in DOMAIN drawn |->
        [id |-> i, athlete_id |-> drawn[i].athlete_id,
         event_date |-> EventDates[IF newest_first THEN Len(drawn) + 1 - i ELSE i],
         metrics |-> drawn[i].metrics]]

AnalysisStores ==
    UNION { { [profiles |-> Profiles, athletes |-> roster,
               events |-> EventsTable(drawn, newest_first)] :
                drawn \in SeqsUpTo([athlete_id : {roster[i].id : i \in DOMAIN roster},
                                    metrics : MetricsChoices], MaxEvents),
                newest_first \in BOOLEAN } :
            roster \in RosterChoices }

MetricChoices == {"height_cm", "test_type"}

BenchmarkSourceChoices == {"own", "boxing_science"}

ReferenceGroupChoices == {"cohort", "gender", "mass_band"}

\* reference_group with the gender and mass_band parameters sent along
GroupParamChoices ==
    { [reference_group |-> "cohort", gender |-> None, mass_band |-> None] }
    \cup { [reference_group |-> "gender", gender |-> g, mass_band |-> None] :
             g \in {None, Some("male"), Some("female")} }
    \cup { [reference_group |-> "mass_band", gender |-> None, mass_band |-> b] :
             b \in {None, Some(""), Some("70-74.9kg"), Some("75-79.9kg")} }

InitAnalysis ==
    /\ call = Idle
    /\ ret = Idle
    /\ db \in AnalysisStores

\* GET /analysis/benchmarks
GetBenchmarks ==
    /\ call = Idle
    /\ \E metric \in MetricChoices, group \in GroupParamChoices,
          benchmark_source \in BenchmarkSourceChoices, current_user \in Users,
          configured \in BOOLEAN :
          /\ call' = [op |-> "get_benchmarks", metric |-> metric,
                      reference_group |-> group.reference_group,
                      gender |-> group.gender, mass_band |-> group.mass_band,
                      benchmark_source |-> benchmark_source,
                      current_user |-> current_user, configured |-> configured]
          /\ ret' = Queried(get_benchmarks(metric, group.reference_group, group.gender,
                                           group.mass_band, benchmark_source,
                                           current_user, db, configured),
                            get_benchmarks_queries(group.reference_group, group.gender,
                                                   group.mass_band, benchmark_source,
                                                   current_user, db, configured))
    /\ UNCHANGED db

\* GET /analysis/athlete/{athlete_id}/zscore
GetAthleteZscore ==
    /\ call = Idle
    /\ \E athlete_id \in {1, 3}, metric \in MetricChoices,
          event_id \in {None} \cup {Some(i) : i \in 1..MaxEvents},
          reference_group \in ReferenceGroupChoices,
          benchmark_source \in BenchmarkSourceChoices, current_user \in Users,
          configured \in BOOLEAN :
          /\ call' = [op |-> "get_athlete_zscore", athlete_id |-> athlete_id,
                      metric |-> metric, event_id |-> event_id,
                      reference_group |-> reference_group,
                      benchmark_source |-> benchmark_source,
                      current_user |-> current_user, configured |-> configured]
          /\ ret' = get_athlete_zscore(athlete_id, metric, event_id, reference_group,
                                       benchmark_source, current_user, db, configured)
    /\ UNCHANGED db

\* GET /analysis/athlete/{athlete_id}/zscores
GetAthleteZscoresBulk ==
    /\ call = Idle
    /\ \E athlete_id \in {1, 3}, metric \in MetricChoices,
          reference_group \in ReferenceGroupChoices,
          benchmark_source \in BenchmarkSourceChoices, current_user \in Users,
          configured \in BOOLEAN :
          /\ call' = [op |-> "get_athlete_zscores_bulk", athlete_id |-> athlete_id,
                      metric |-> metric, reference_group |-> reference_group,
                      benchmark_source |-> benchmark_source,
                      current_user |-> current_user, configured |-> configured]
          /\ ret' = get_athlete_zscores_bulk(athlete_id, metric, reference_group,
                                             benchmark_source, current_user, db,
                                             configured)
    /\ UNCHANGED db

NextAnalysis ==
    \/ GetBenchmarks \/ GetAthleteZscore \/ GetAthleteZscoresBulk
    \/ CalculateZScore
    \/ Return

SpecAnalysis == InitAnalysis /\ [][NextAnalysis]_vars

----------------------------------------------------------------------------
(* Properties of the training-load engine *)

IsLoadCall == call.op \in {"analyze", "calculate_daily_loads"}

\* the window the call asks for
WindowStart == IF call.op = "analyze" THEN call.target_date - call.days + 1
               ELSE call.start_date
WindowEnd == IF call.op = "analyze" THEN call.target_date ELSE call.end_date

\* number of entries of the returned daily loads dated in [lo, hi]
EntriesIn(lo, hi) ==
    Cardinality({i \in DOMAIN ret.daily_loads :
                    lo <= ret.daily_loads[i].date /\ ret.daily_loads[i].date <= hi})

\* C1: the daily loads returned by analyze / calculate_daily_loads hold exactly
\* one entry per calendar day of the requested window, ascending, and no entry
\* dated outside the window, whatever the dates of the sessions passed in.
C1_ExactWindow ==
    (IsLoadCall /\ WindowStart <= WindowEnd) =>
        /\ Len(ret.daily_loads) = WindowEnd - WindowStart + 1
        /\ \A i \in DOMAIN ret.daily_loads :
              ret.daily_loads[i].date = WindowStart + i - 1

\* the contribution C6 states for one session
ClaimedSrpe(session) ==
    IF "srpe" \in DOMAIN session /\ ~IsNone(session.srpe)
    THEN Val(session.srpe)
    ELSE session.rpe * session.duration_minutes

RECURSIVE ClaimedDayTotal(_, _)
ClaimedDayTotal(sessions, d) ==
    IF Len(sessions) = 0 THEN 0
    ELSE (IF Head(sessions).session_date = d THEN ClaimedSrpe(Head(sessions)) ELSE 0)
         + ClaimedDayTotal(Tail(sessions), d)

\* C6: every day's total_srpe is the sum, over the sessions of that day, of srpe
\* when it is a number and of rpe * duration_minutes when srpe is None or the
\* srpe key is absent.
C6_SrpeFallback ==
    IsLoadCall =>
        \A i \in DOMAIN ret.daily_loads :
            ret.daily_loads[i].total_srpe
                = ClaimedDayTotal(call.sessions, ret.daily_loads[i].date)

\* C7 as stated: acute_load and chronic_load are each non-null exactly when the
\* daily loads hold at least 7 entries in the trailing 7 days and at least 28 in
\* the trailing 28 days.
C7_SameGateAsAcwr ==
    call.op = "analyze" =>
        LET gate == /\ EntriesIn(call.target_date - 6, call.target_date) >= 7
                    /\ EntriesIn(call.target_date - 27, call.target_date) >= 28
        IN  /\ ~IsNone(ret.acute_load) <=> gate
            /\ ~IsNone(ret.chronic_load) <=> gate

\* C7 amended: chronic_load is non-null exactly when both windows are full (the
\* sample gate of acwr); acute_load is non-null exactly when the trailing 7-day
\* window holds at least 7 entries, whatever the 28-day window holds.
C7_OwnGates ==
    call.op = "analyze" =>
        LET acute_full == EntriesIn(call.target_date - 6, call.target_date) >= 7
            chronic_full == EntriesIn(call.target_date - 27, call.target_date) >= 28
        IN  /\ ~IsNone(ret.acute_load) <=> acute_full
            /\ ~IsNone(ret.chronic_load) <=> (acute_full /\ chronic_full)
            /\ ~IsNone(ret.acwr) => (~IsNone(ret.acute_load) /\ ~IsNone(ret.chronic_load))

\* C7 witness: a 7-day analysis, where acute_load is present and chronic_load is not
C7_Witness ==
    /\ call.op = "analyze"
    /\ call.days = 7
    /\ ~IsNone(ret.acute_load)
    /\ IsNone(ret.chronic_load)
    /\ IsNone(ret.acwr)

----------------------------------------------------------------------------
(* Properties of the CSV ingestion *)

\* the rows the reader yields for the text of the call
CallRows == DictReader(StripBom(call.csv_content))

\* a cell of the row holds a text that is given and is neither blank, an NA
\* sentinel nor a number
NonNumericCell(row, column) ==
    /\ column \in DOMAIN row
    /\ ~IsNone(row[column])
    /\ parse_numeric(row[column]).kind = "ValueError"

\* the row has a metric or body-mass cell with non-numeric text
HasNonNumericCell(row) ==
    \/ NonNumericCell(row, DefaultMapping.mass_column)
    \/ \E i \in DOMAIN DefaultMapping.metric_columns :
          NonNumericCell(row, DefaultMapping.metric_columns[i].csv_column)

\* the date of the row is missing or blank
DateMissing(row) ==
    \/ DefaultMapping.date_column \notin DOMAIN row
    \/ /\ ~IsNone(row[DefaultMapping.date_column])
       /\ Strip(Val(row[DefaultMapping.date_column])) = ""

\* the date of the row is given and has none of the accepted formats
DateInvalid(row) ==
    /\ DefaultMapping.date_column \in DOMAIN row
    /\ ~IsNone(row[DefaultMapping.date_column])
    /\ Strip(Val(row[DefaultMapping.date_column])) # ""
    /\ \A sep \in {"/", "-", "."} :
          IsNone(StrptimeIso(Strip(Val(row[DefaultMapping.date_column])), sep))

\* positions, among the rows the reader yields, of the rows with a property
RowsWhere(P(_)) == {k \in DOMAIN CallRows : P(CallRows[k].row)}

\* the row numbers process_csv reported
ErrorRows == {ret.errors[j].row : j \in DOMAIN ret.errors}

\* C3: process_csv returns (events, errors) for every CSV text, whatever its rows
\* hold: it never raises.
C3_NeverAborts ==
    call.op = "process_csv" => ret.kind = "ok"

C8_FileRowNumber ==
    (call.op = "process_csv" /\ ret.kind = "ok") =>
        LET failing == SelectSeq(CallRows,
                           LAMBDA r : DateInvalid(r.row) \/ DateMissing(r.row))
        IN  \A j \in DOMAIN ret.errors :
               j <= Len(failing) /\ ret.errors[j].row = failing[j].line

----------------------------------------------------------------------------
(* Properties of the CSV upload *)

\* the file passed the checks made before the text is parsed
FileReadable ==
    call.file.filename_csv /\ ~call.file.too_large /\ call.file.utf8

\* the header of the uploaded text, as the reader sees it
UploadHeader == Fieldnames(StripBom(call.file.csv_content))

\* the rows the reader yields for the uploaded text
UploadRows == DictReader(StripBom(call.file.csv_content))

\* the row holds a readable date and at least one metric in range: it stands for
\* one performance event
IsEventRow(row) ==
    /\ ~DateMissing(row) /\ ~DateInvalid(row)
    /\ ~IsNone(row[DefaultMapping.date_column])
    /\ extract_metrics(DefaultMapping, row).kind = "ok"
    /\ DOMAIN extract_metrics(DefaultMapping, row).value # {}

\* the event date of an event row
EventDateOf(row) == parse_date_ddmmyyyy(row[DefaultMapping.date_column]).value

\* the store already holds an event of the athlete on the date
Stored(athlete, event_date) ==
    \E i \in DOMAIN call.store.events :
        /\ call.store.events[i].athlete_id = athlete
        /\ call.store.events[i].event_date = event_date

\* the events the call added to the store
Inserted == SubSeq(db.events, Len(call.store.events) + 1, Len(db.events))

\* the reason of an error entry reports skipped duplicates
MentionsDuplicate(reason) == reason = "duplicate"

\* C5: an upload for an athlete of the caller inserts no event for an (athlete,
\* event_date) pair the store already holds; when every row of the file is such a
\* duplicate the call answers 201 with processed = 0, an errors entry that
\* mentions the duplicates, and leaves the events as they were.
C5_DuplicatesSkipped ==
    (/\ call.op = "upload_csv" /\ FileReadable /\ call.configured
     /\ ~call.faults.select /\ ~call.faults.insert_batch
     /\ ~IsNone(call.athlete_id)
     /\ \E i \in DOMAIN call.store.athletes :
           /\ call.store.athletes[i].id = Val(call.athlete_id)
           /\ call.store.athletes[i].coach_id = call.current_user.id)
    =>
        /\ \A i \in DOMAIN Inserted :
              ~Stored(Inserted[i].athlete_id, Inserted[i].event_date)
        /\ (/\ Len(UploadRows) > 0
            /\ \A k \in DOMAIN UploadRows :
                  /\ IsEventRow(UploadRows[k].row)
                  /\ Stored(Val(call.athlete_id), EventDateOf(UploadRows[k].row)))
           => /\ ret.resp.status = 201
              /\ ret.resp.processed = 0
              /\ \E j \in DOMAIN ret.resp.errors :
                    MentionsDuplicate(ret.resp.errors[j].reason)
              /\ db.events = call.store.events

\* C9: an upload whose header lacks the date column is answered 400 with the
\* "Missing date column" warning; only the structure check has run: process_csv
\* was not called, the store was neither read nor written.
C9_MissingDateColumnFatal ==
    (/\ call.op = "upload_csv" /\ FileReadable
     /\ \A i \in DOMAIN UploadHeader : UploadHeader[i] # DefaultMapping.date_column)
    =>
        /\ ret.resp.status = 400
        /\ ret.resp.detail = "Missing date column: Test Date"
        /\ ret.trace = <<"validate_csv_structure">>
        /\ db = call.store

\* C9 witness: a rejected upload with two data rows, for a given athlete and a
\* configured store that already holds that athlete
C9_Witness ==
    /\ call.op = "upload_csv" /\ FileReadable
    /\ \A i \in DOMAIN UploadHeader : UploadHeader[i] # DefaultMapping.date_column
    /\ Len(UploadHeader) > 0
    /\ Len(UploadRows) = 2
    /\ ~IsNone(call.athlete_id)
    /\ call.configured
    /\ Len(call.store.athletes) > 0
    /\ ret.resp.status = 400
    /\ ret.trace = <<"validate_csv_structure">>

----------------------------------------------------------------------------
(* Properties of the analysis endpoints *)

IsAnalysisCall ==
    call.op \in {"get_benchmarks", "get_athlete_zscore", "get_athlete_zscores_bulk"}

\* the rows of a table, as a set
Rows(table) == {table[i] : i \in DOMAIN table}

\* C2: a caller whose role is not admin and who asks for the boxing_science
\* source is rejected with 403 "Admin access required" by each of the three
\* analysis endpoints.
C2_AdminPoolGated ==
    (/\ IsAnalysisCall /\ call.configured
     /\ call.current_user.role # "admin"
     /\ call.benchmark_source = "boxing_science")
    => (ret.status = 403 /\ ret.detail = "Admin access required")

\* the athletes the benchmark source stands for
SourcePool ==
    IF call.benchmark_source = "boxing_science"
    THEN {a \in Rows(db.athletes) :
            \E p \in Rows(db.profiles) : p.role = "admin" /\ a.coach_id = p.id}
    ELSE {a \in Rows(db.athletes) : a.coach_id = call.current_user.id}

\* the events of a set of athletes
EventsOf(athletes) ==
    {e \in Rows(db.events) : \E a \in athletes : a.id = e.athlete_id}

\* the event holds a number for the metric of the call
HasMetricValue(e) ==
    /\ call.metric \in DOMAIN e.metrics
    /\ call.metric # "test_type"

\* the event lies in the mass band
InBand(e, band) ==
    /\ "body_mass_kg" \in DOMAIN e.metrics
    /\ get_mass_band(e.metrics.body_mass_kg) = band

\* get_benchmarks: reference population, its events, and the metric sample
BenchPopulation ==
    IF call.reference_group = "gender"
    THEN {a \in SourcePool : a.gender = Val(call.gender)}
    ELSE SourcePool

BenchSample ==
    {e \in EventsOf(BenchPopulation) :
        /\ HasMetricValue(e)
        /\ call.reference_group = "mass_band" => InBand(e, Val(call.mass_band))}

BenchParamsValid ==
    /\ call.reference_group = "gender" => ~IsNone(call.gender)
    /\ call.reference_group = "mass_band"
          => (~IsNone(call.mass_band) /\ Val(call.mass_band) # "")

\* get_athlete_zscore: the athlete of the caller, the target event, the
\* reference population and the metric sample
ZAthletes ==
    {a \in Rows(db.athletes) :
        a.id = call.athlete_id /\ a.coach_id = call.current_user.id}

ZTargets ==
    LET own == {e \in Rows(db.events) : e.athlete_id = call.athlete_id}
    IN  IF ~IsNone(call.event_id) THEN {e \in own : e.id = Val(call.event_id)}
        ELSE {e \in own : \A other \in own :
                 IsoOrdinal(other.event_date) <= IsoOrdinal(e.event_date)}

ZTarget == CHOOSE e \in ZTargets : TRUE

ZAthlete == CHOOSE a \in ZAthletes : TRUE

ZPopulation ==
    IF call.reference_group = "gender"
    THEN {a \in SourcePool : a.gender = ZAthlete.gender}
    ELSE SourcePool

ZSample ==
    {e \in EventsOf(ZPopulation) :
        /\ HasMetricValue(e)
        /\ call.reference_group = "mass_band"
              => InBand(e, get_mass_band(ZTarget.metrics.body_mass_kg))}

\* the target event gives the endpoint a value (and a body mass where the
\* reference group needs one) to compare
ZTargetUsable ==
    /\ HasMetricValue(ZTarget)
    /\ call.reference_group = "mass_band" => "body_mass_kg" \in DOMAIN ZTarget.metrics

C11_MissingParamRejectedFirst ==
    (/\ call.op = "get_benchmarks" /\ call.configured
     /\ \/ call.reference_group = "gender" /\ IsNone(call.gender)
        \/ call.reference_group = "mass_band" /\ IsNone(call.mass_band))
    => /\ ret.status = 400
       /\ call.reference_group = "gender"
             => ret.detail = "Gender parameter required when reference_group=gender"
       /\ call.reference_group = "mass_band"
             => ret.detail = "Mass band parameter required when reference_group=mass_band"
       /\ ret.queries = <<>>
       /\ "body" \notin DOMAIN ret

\* C11 witness: a gender benchmark without the gender parameter, asked by a
\* coach whose athletes have events, answered 400 with no table queried
C11_Witness ==
    /\ call.op = "get_benchmarks" /\ call.configured
    /\ call.reference_group = "gender" /\ IsNone(call.gender)
    /\ call.benchmark_source = "own"
    /\ EventsOf(SourcePool) # {}
    /\ ret.status = 400
    /\ ret.queries = <<>>

\* the answer of the single Z-score endpoint to the parameters of the call in
\* progress, asked for event e over the same store
SingleFor(e) ==
    get_athlete_zscore(call.athlete_id, call.metric, Some(e.id), call.reference_group,
                       call.benchmark_source, call.current_user, db, call.configured)

\* the entries of the bulk answer (none when the request failed)
BulkEntries == IF ret.status = 200 THEN ret.body ELSE EmptyDict

\* C12: the bulk Z-score result holds an entry for an event exactly when the
\* single endpoint succeeds for that event with the same athlete, metric,
\* reference group and source over the same store, and the entry's value,
\* z_score, mean, std_dev and reference_group equal the single response.
C12_BulkEqualsSingles ==
    (call.op = "get_athlete_zscores_bulk" /\ call.configured)
    => \A e \in Rows(db.events) :
          /\ (e.id \in DOMAIN BulkEntries) <=> (SingleFor(e).status = 200)
          /\ e.id \in DOMAIN BulkEntries
                => /\ BulkEntries[e.id].value = SingleFor(e).body.value
                   /\ BulkEntries[e.id].z_score = SingleFor(e).body.z_score
                   /\ BulkEntries[e.id].mean = SingleFor(e).body.mean
                   /\ BulkEntries[e.id].std_dev = SingleFor(e).body.std_dev
                   /\ BulkEntries[e.id].reference_group = SingleFor(e).body.reference_group

\* C12 witness: a bulk answer with an entry for one event of the athlete and
\* none for another, as the single endpoint succeeds for one and fails for the other
C12_Witness ==
    /\ call.op = "get_athlete_zscores_bulk" /\ call.configured
    /\ ret.status = 200
    /\ \E e1, e2 \in Rows(db.events) :
          /\ e1.athlete_id = call.athlete_id /\ e2.athlete_id = call.athlete_id
          /\ e1.id \in DOMAIN ret.body /\ e2.id \notin DOMAIN ret.body
          /\ SingleFor(e1).status = 200 /\ SingleFor(e2).status # 200

\* the reference events of the Z-score call in progress that hold the metric,
\* in table order; within the band when one is given
RefRows(band) ==
    SelectSeq(db.events, LAMBDA e :
        /\ e \in EventsOf(ZPopulation)
        /\ HasMetricValue(e)
        /\ ~IsNone(band) => InBand(e, Val(band)))

\* their metric values
RefValues(band) == [i \in DOMAIN RefRows(band) |-> RefRows(band)[i].metrics[call.metric]]

\* the event of the store with the given id
EventById(id) == CHOOSE e \in Rows(db.events) : e.id = id

\* the band of the event with the given id
BandOfEvent(id) == get_mass_band(EventById(id).metrics.body_mass_kg)

\* C13: in a bulk Z-score answer under cohort or gender grouping every entry
\* carries the mean and std_dev of all reference events holding the metric;
\* under mass_band grouping an entry carries the mean and std_dev of the
\* reference events in the 5 kg band of the entry's own event, and that band's
\* label.
C13_BulkReferenceStatistics ==
    (call.op = "get_athlete_zscores_bulk" /\ call.configured /\ ret.status = 200)
    => \A id \in DOMAIN ret.body :
          IF call.reference_group = "mass_band"
          THEN /\ "body_mass_kg" \in DOMAIN EventById(id).metrics
               /\ Some(ret.body[id].mean) = calculate_mean(RefValues(Some(BandOfEvent(id))))
               /\ Some(ret.body[id].std_dev)
                     = calculate_std_dev(RefValues(Some(BandOfEvent(id))), TRUE)
               /\ ret.body[id].reference_group = Label("mass_band", BandOfEvent(id))
          ELSE /\ Some(ret.body[id].mean) = calculate_mean(RefValues(None))
               /\ Some(ret.body[id].std_dev) = calculate_std_dev(RefValues(None), TRUE)
               /\ \A other \in DOMAIN ret.body :
                     /\ ret.body[other].mean = ret.body[id].mean
                     /\ ret.body[other].std_dev = ret.body[id].std_dev

\* C13 witness: a mass_band bulk answer with two events of the athlete in
\* different bands, carrying different means and different labels
C13_Witness ==
    /\ call.op = "get_athlete_zscores_bulk" /\ call.configured
    /\ call.reference_group = "mass_band"
    /\ ret.status = 200
    /\ \E id1, id2 \in DOMAIN ret.body :
          /\ BandOfEvent(id1) # BandOfEvent(id2)
          /\ ret.body[id1].mean # ret.body[id2].mean
          /\ ret.body[id1].reference_group # ret.body[id2].reference_group

\* the events of the benchmark source that carry a body mass in the requested
\* band and a number for the metric, in table order
BandRows ==
    SelectSeq(db.events, LAMBDA e :
        /\ e \in EventsOf(SourcePool)
        /\ InBand(e, Val(call.mass_band))
        /\ HasMetricValue(e))

\* C14: under mass_band grouping get_benchmarks samples exactly the reference
\* events that carry a body_mass_kg in the requested band and a numeric value of
\* the metric: count is their number and the statistics are those of their
\* values; no event without body mass or in another band contributes.
C14_MassBandSample ==
    (/\ call.op = "get_benchmarks" /\ call.configured
     /\ call.reference_group = "mass_band" /\ BenchParamsValid)
    => /\ ret.status = 200
       /\ ret.body.count = Len(BandRows)
       /\ ret.body.mean
             = calculate_mean([i \in DOMAIN BandRows |-> BandRows[i].metrics[call.metric]])
       /\ ret.body.mode
             = calculate_mode([i \in DOMAIN BandRows |-> BandRows[i].metrics[call.metric]])

\* C14 witness: the reference events hold the metric once in the requested band,
\* once without a body mass; the count is 1
C14_Witness ==
    /\ call.op = "get_benchmarks" /\ call.configured
    /\ call.reference_group = "mass_band" /\ BenchParamsValid
    /\ \E e1, e2 \in EventsOf(SourcePool) :
          /\ HasMetricValue(e1) /\ InBand(e1, Val(call.mass_band))
          /\ HasMetricValue(e2) /\ "body_mass_kg" \notin DOMAIN e2.metrics
    /\ ret.status = 200
    /\ ret.body.count = 1

\* the store with the data of every other coach removed: the profile, the
\* athletes and the events of the caller only
OwnStore ==
    [profiles |-> SelectSeq(db.profiles, LAMBDA p : p.id = call.current_user.id),
     athletes |-> SelectSeq(db.athletes, LAMBDA a : a.coach_id = call.current_user.id),
     events |-> SelectSeq(db.events, LAMBDA e :
                    \E a \in Rows(db.athletes) :
                        a.id = e.athlete_id /\ a.coach_id = call.current_user.id)]

\* the answer to the call in progress over the given store
AnswerOver(store) ==
    CASE call.op = "get_benchmarks" ->
            Queried(get_benchmarks(call.metric, call.reference_group, call.gender,
                                   call.mass_band, call.benchmark_source,
                                   call.current_user, store, call.configured),
                    get_benchmarks_queries(call.reference_group, call.gender,
                                           call.mass_band, call.benchmark_source,
                                           call.current_user, store, call.configured))
      [] call.op = "get_athlete_zscore" ->
            get_athlete_zscore(call.athlete_id, call.metric, call.event_id,
                               call.reference_group, call.benchmark_source,
                               call.current_user, store, call.configured)
      [] call.op = "get_athlete_zscores_bulk" ->
            get_athlete_zscores_bulk(call.athlete_id, call.metric, call.reference_group,
                                     call.benchmark_source, call.current_user, store,
                                     call.configured)

\* C15: with benchmark_source=own the answer of each analysis endpoint equals
\* its answer over the store stripped of every other coach's athletes and
\* events, so stores that differ only in other coaches' data answer alike; the
\* two Z-score endpoints answer 404 "Athlete not found" for an athlete the
\* caller does not own.
C15_OwnSourceIsolated ==
    (IsAnalysisCall /\ call.configured /\ call.benchmark_source = "own")
    => /\ ret = AnswerOver(OwnStore)
       /\ (call.op # "get_benchmarks" /\ ZAthletes = {})
             => (ret.status = 404 /\ ret.detail = "Athlete not found")

\* C15 witness: a coach's own-cohort benchmark over a store where another
\* coach's athlete has an event with the metric too; only the own event counts
C15_Witness ==
    /\ call.op = "get_benchmarks" /\ call.configured
    /\ call.benchmark_source = "own" /\ call.reference_group = "cohort"
    /\ \E e \in Rows(db.events) : HasMetricValue(e) /\ e \notin EventsOf(SourcePool)
    /\ \E e \in EventsOf(SourcePool) : HasMetricValue(e)
    /\ ret.status = 200
    /\ ret.body.count = 1
    /\ Len(db.events) = 2

----------------------------------------------------------------------------
(* Properties of the load calculations *)

\* the daily loads a calculation worked on and the date it was asked for
LoadsGiven == IF call.op = "analyze" THEN ret.daily_loads ELSE call.daily_loads

\* the entries dated within the trailing `span` days of the target date
Trailing(span) ==
    {i \in DOMAIN LoadsGiven :
        /\ call.target_date - (span - 1) <= LoadsGiven[i].date
        /\ LoadsGiven[i].date <= call.target_date}

\* the sum of total_srpe over a set of entries
RECURSIVE TotalOf(_)
TotalOf(entries) ==
    IF entries = {} THEN 0
    ELSE LET i == CHOOSE j \in entries : TRUE
         IN  LoadsGiven[i].total_srpe + TotalOf(entries \ {i})

\* the sum of squared total_srpe over a set of entries
RECURSIVE SquaresOf(_)
SquaresOf(entries) ==
    IF entries = {} THEN 0
    ELSE LET i == CHOOSE j \in entries : TRUE
         IN  LoadsGiven[i].total_srpe * LoadsGiven[i].total_srpe
             + SquaresOf(entries \ {i})

AcwrResult == IF call.op = "analyze" THEN ret.acwr ELSE ret.value

\* C16: calculate_acwr is null when fewer than 7 entries fall in the trailing 7
\* days or fewer than 28 in the trailing 28 days, null when the 28-day mean is
\* 0, and otherwise mean(acute) / mean(chronic) rounded to 2 decimals; 28 equal
\* non-zero daily loads give exactly 1.0.
C16_Acwr ==
    call.op \in {"analyze", "calculate_acwr"}
    => LET acute == Trailing(7)
           chronic == Trailing(28)
           full == Cardinality(acute) >= 7 /\ Cardinality(chronic) >= 28
       IN  /\ ~full => IsNone(AcwrResult)
           /\ (full /\ TotalOf(chronic) = 0) => IsNone(AcwrResult)
           /\ (full /\ TotalOf(chronic) # 0)
                 => AcwrResult
                       = Some(RoundDiv(100 * TotalOf(acute) * Cardinality(chronic),
                                       Cardinality(acute) * TotalOf(chronic)))
           /\ (/\ Cardinality(chronic) = 28
               /\ \E v \in 1..10 : \A i \in chronic : LoadsGiven[i].total_srpe = v)
                 => AcwrResult = Some(100)

\* C16 witness: 28 days of the same non-zero load, answered 1.0
C16_Witness ==
    /\ call.op = "calculate_acwr"
    /\ Cardinality(Trailing(28)) = 28
    /\ \A i \in Trailing(28) : LoadsGiven[i].total_srpe = 3
    /\ ret.value = Some(100)

MonotonyResult == IF call.op = "analyze" THEN ret.monotony ELSE ret.value

\* C17 as stated: calculate_monotony is null when fewer than 7 entries fall in
\* the trailing 7 days, when the week's mean is 0 or when its population
\* standard deviation is 0; otherwise it is positive and equals mean / SD.
\* With S the sum, Q the sum of squares and n the count of the week,
\* mean / SD = S / sqrt(n*Q - S*S).
C17_ExactRatio ==
    call.op \in {"analyze", "calculate_monotony"}
    => LET week == Trailing(7)
           n == Cardinality(week)
           S == TotalOf(week)
           D == n * SquaresOf(week) - S * S
           k == Val(MonotonyResult)
       IN  IF n < 7 \/ S = 0 \/ D = 0 THEN IsNone(MonotonyResult)
           ELSE /\ ~IsNone(MonotonyResult)
                /\ k > 0
                /\ k * k * D = 10000 * S * S

\* C17 amended: calculate_monotony is null when fewer than 7 entries fall in
\* the trailing 7 days, when the week's mean is 0 or when its population
\* standard deviation is 0 (7 equal loads); otherwise it is positive and is
\* mean / SD rounded to 2 decimals, the nearest hundredth of the quotient.
C17_Monotony ==
    call.op \in {"analyze", "calculate_monotony"}
    => LET week == Trailing(7)
           n == Cardinality(week)
           S == TotalOf(week)
           D == n * SquaresOf(week) - S * S
           k == Val(MonotonyResult)
       IN  IF n < 7 \/ S = 0 \/ D = 0 THEN IsNone(MonotonyResult)
           ELSE /\ ~IsNone(MonotonyResult)
                /\ k > 0
                /\ (2 * k - 1) * (2 * k - 1) * D <= 40000 * S * S
                /\ 40000 * S * S <= (2 * k + 1) * (2 * k + 1) * D

\* C17 witness: a full week of unequal loads whose mean / SD is no whole number
\* of hundredths; the answer is the rounded quotient
C17_Witness ==
    /\ call.op = "calculate_monotony"
    /\ Cardinality(Trailing(7)) = 7
    /\ ~IsNone(ret.value)
    /\ LET S == TotalOf(Trailing(7))
           D == 7 * SquaresOf(Trailing(7)) - S * S
           k == Val(ret.value)
       IN  /\ k * k * D # 10000 * S * S
           /\ (2 * k - 1) * (2 * k - 1) * D <= 40000 * S * S
           /\ 40000 * S * S <= (2 * k + 1) * (2 * k + 1) * D

WeeklyLoadResult == IF call.op = "analyze" THEN ret.weekly_load ELSE ret.value

\* C18: calculate_weekly_load is the sum of total_srpe over exactly the entries
\* dated in the trailing 7 days, null if and only if there is no such entry;
\* analyze over no sessions and days >= 1 gives weekly_load = 0, not null.
C18_WeeklyLoad ==
    call.op \in {"analyze", "calculate_weekly_load"}
    => /\ IsNone(WeeklyLoadResult) <=> Trailing(7) = {}
       /\ Trailing(7) # {} => WeeklyLoadResult = Some(TotalOf(Trailing(7)))
       /\ (call.op = "analyze" /\ call.sessions = <<>>) => WeeklyLoadResult = Some(0)

\* C18 witness: a partial week with a loaded day just outside the window; the
\* sum leaves that day out
C18_Witness ==
    /\ call.op = "calculate_weekly_load"
    /\ Cardinality(Trailing(7)) \in 1..6
    /\ \E i \in DOMAIN call.daily_loads :
          i \notin Trailing(7) /\ call.daily_loads[i].total_srpe > 0
    /\ ~IsNone(ret.value) /\ Val(ret.value) > 0
    /\ Val(ret.value) = TotalOf(Trailing(7))

----------------------------------------------------------------------------
(* Properties of StatEngine *)

\* C19: calculate_benchmarks is null if and only if values is empty; for a
\* non-empty list count = len(values), mean, std_dev and mode are non-null, and
\* ci_lower and ci_upper are both null exactly when len(values) < 2.
C19_BenchmarksShape ==
    call.op = "calculate_benchmarks"
    => /\ IsNone(ret.value) <=> Len(call.values) = 0
       /\ Len(call.values) > 0
             => /\ Val(ret.value).count = Len(call.values)
                /\ ~IsNone(Val(ret.value).mean)
                /\ ~IsNone(Val(ret.value).std_dev)
                /\ ~IsNone(Val(ret.value).mode)
                /\ IsNone(Val(ret.value).ci_lower) <=> Len(call.values) < 2
                /\ IsNone(Val(ret.value).ci_upper) <=> Len(call.values) < 2

\* C19 witness: the benchmarks of a single value, count 1 and no interval
C19_Witness ==
    /\ call.op = "calculate_benchmarks"
    /\ Len(call.values) = 1
    /\ Val(ret.value).count = 1
    /\ Val(ret.value).mean = Some(call.values[1])
    /\ IsNone(Val(ret.value).ci_lower) /\ IsNone(Val(ret.value).ci_upper)

\* how many of the values round to the tenth k
TimesRounded(k) == Cardinality({i \in DOMAIN call.values : Round1(call.values[i]) = k})

\* the tenths the values round to
RoundedGroups == {Round1(call.values[i]) : i \in DOMAIN call.values}

\* C20: calculate_mode is null if and only if values is empty; otherwise it is
\* the smallest of the tenths that the most values round to, so it does not
\* depend on the order of the values, and mode([1, 1, 2, 2, 3]) = 1.
C20_ModeSmallestOfTies ==
    call.op = "calculate_mode"
    => /\ IsNone(ret.value) <=> Len(call.values) = 0
       /\ Len(call.values) > 0
             => /\ Val(ret.value) \in RoundedGroups
                /\ \A k \in RoundedGroups : TimesRounded(k) <= TimesRounded(Val(ret.value))
                /\ \A k \in RoundedGroups :
                      TimesRounded(k) = TimesRounded(Val(ret.value)) => Val(ret.value) <= k
       /\ call.values = <<100, 100, 200, 200, 300>> => ret.value = Some(100)

\* C20 witness: two tenths tie for the highest frequency, the larger is met
\* first and one value counts for the smaller only after rounding
C20_Witness ==
    /\ call.op = "calculate_mode"
    /\ call.values = <<200, 104, 200, 100, 300>>
    /\ ret.value = Some(100)

\* the sample holds one value, possibly many times
AllEqual(values) == \A i, j \in DOMAIN values : values[i] = values[j]

\* C21: calculate_z_score is 0.0 for every value and mean when std_dev = 0, and
\* 0.0 whenever value = mean; the single Z-score endpoint answers 200 with
\* z_score = 0.0 when its reference sample holds a single value or equal
\* values, and so does every entry of the bulk answer.
C21_ZeroZScore ==
    /\ call.op = "calculate_z_score"
       => /\ call.std_dev = 0 => ret.value = 0
          /\ call.value = call.mean => ret.value = 0
    /\ (/\ call.op = "get_athlete_zscore" /\ call.configured
        /\ ZAthletes # {} /\ ZTargets # {} /\ ZTargetUsable
        /\ ZSample # {}
        /\ \A e1, e2 \in ZSample : e1.metrics[call.metric] = e2.metrics[call.metric])
       => /\ ret.status = 200
          /\ ret.body.z_score = 0
          /\ ret.body.std_dev = 0
    /\ (call.op = "get_athlete_zscores_bulk" /\ call.configured /\ ret.status = 200)
       => \A id \in DOMAIN ret.body :
             LET band == IF call.reference_group = "mass_band"
                         THEN Some(BandOfEvent(id)) ELSE None
             IN  AllEqual(RefValues(band)) => ret.body[id].z_score = 0

\* C21 witness: a Z-score asked for a value above the only value of the
\* reference sample, another athlete's; the answer is 200 with z_score 0.0
C21_Witness ==
    /\ call.op = "get_athlete_zscore" /\ call.configured
    /\ ZAthletes # {} /\ ZTargets # {} /\ ZTargetUsable
    /\ Cardinality(ZSample) = 1
    /\ \E e \in ZSample : e.metrics[call.metric] < ZTarget.metrics[call.metric]
    /\ ret.status = 200
    /\ ret.body.z_score = 0

\* the lower bounds a label may name, in kg
BandLowers == {5 * b : b \in 0..21}

\* the label "L-(L+4.9)kg" of the lower bound L
BandLabelOf(L) == MassBandLabel(L)

\* C22: for a mass m >= 0 get_mass_band answers the label "L-(L+4.9)kg" of the
\* multiple of 5 with L <= m < L + 5, and two masses get the same label if and
\* only if floor(m / 5) is the same; 69.9 and 65.0 share "65-69.9kg", 70.0 and
\* 74.9 share "70-74.9kg".
C22_MassBandPartition ==
    call.op = "get_mass_band"
    => /\ \E L \in BandLowers :
             /\ ret.value = BandLabelOf(L)
             /\ 100 * L <= call.mass_kg /\ call.mass_kg < 100 * (L + 5)
       /\ \A L1, L2 \in BandLowers : BandLabelOf(L1) = BandLabelOf(L2) => L1 = L2
       /\ \A other \in MassChoices :
             (get_mass_band(other) = ret.value)
                <=> (other \div 500 = call.mass_kg \div 500)
       /\ call.mass_kg \in {6500, 6990} => ret.value = "65-69.9kg"
       /\ call.mass_kg \in {7000, 7490} => ret.value = "70-74.9kg"

\* C22 witness: 69.9 kg is put in the band below 70, the band of 65.0 kg
C22_Witness ==
    /\ call.op = "get_mass_band"
    /\ call.mass_kg = 6990
    /\ ret.value = "65-69.9kg"
    /\ get_mass_band(6500) = ret.value
    /\ get_mass_band(7000) # ret.value

----------------------------------------------------------------------------
(* Properties of the events process_csv emits *)

\* the row has a cell under the column
HasCell(row, column) == column \in DOMAIN row /\ ~IsNone(row[column])

\* the date cell of the row is given and has one of the accepted formats
DateReadable(row) ==
    /\ HasCell(row, DefaultMapping.date_column)
    /\ ~DateMissing(row)
    /\ ~DateInvalid(row)

\* the cell of the i-th metric mapping holds a number within
\* [METRIC_MIN, METRIC_MAX]
InRangeMetric(row, i) ==
    LET column == DefaultMapping.metric_columns[i].csv_column
    IN  /\ HasCell(row, column)
        /\ ~IsNone(FloatOf(Strip(Val(row[column]))))
        /\ Val(FloatOf(Strip(Val(row[column])))) >= METRIC_MIN * 100
        /\ Val(FloatOf(Strip(Val(row[column])))) <= METRIC_MAX * 100

\* the row stands for an event: a readable date and a metric in range
YieldsEvent(row) ==
    /\ DateReadable(row)
    /\ \E i \in DOMAIN DefaultMapping.metric_columns : InRangeMetric(row, i)

\* the rows of the call that stand for an event, in file order
EventRows == SelectSeq(CallRows, LAMBDA r : YieldsEvent(r.row))

\* the athlete identity the event of a row is to carry
IdentityOf(e, row) ==
    IF ~IsNone(call.athlete_id)
    THEN /\ "athlete_id" \in DOMAIN e
         /\ e.athlete_id = Val(call.athlete_id)
         /\ "athlete_name" \notin DOMAIN e
    ELSE IF HasCell(row, "Athlete")
    THEN /\ "athlete_id" \notin DOMAIN e
         /\ "athlete_name" \in DOMAIN e
         /\ e.athlete_name = Truncate100(strip_html(Strip(Val(row["Athlete"]))))
    ELSE IF HasCell(row, "First Name")
    THEN LET first == strip_html(Strip(Val(row["First Name"])))
             surname == IF HasCell(row, "Surname")
                        THEN strip_html(Strip(Val(row["Surname"]))) ELSE ""
             name == IF surname = "" THEN first ELSE FullName(first, surname)
         IN  /\ "athlete_id" \notin DOMAIN e
             /\ name # "" => /\ "athlete_name" \in DOMAIN e
                             /\ e.athlete_name = Truncate100(name)
    ELSE "athlete_id" \notin DOMAIN e /\ "athlete_name" \notin DOMAIN e

\* C23: process_csv emits one event for every row with a readable date and a
\* metric in range, and the event carries the athlete_id override and no name
\* when an override was passed, else the athlete column of the row with its HTML
\* tags removed and cut to 100 characters, else first name plus surname (the
\* first name alone when the surname is absent or blank).
C23_AthleteIdentity ==
    call.op = "process_csv" =>
        /\ Len(ret.events) = Len(EventRows)
        /\ \A j \in DOMAIN ret.events :
              j <= Len(EventRows) => IdentityOf(ret.events[j], EventRows[j].row)

\* the gender column the mapping configures, None where it configures none
GenderColumnOf(mapping) ==
    IF HasAttr(mapping, "gender_column") THEN mapping.gender_column ELSE None

\* the gender field the event of a row is to carry: the trimmed, lowercased cell
\* of the configured gender column when that is male or female, else no field
GenderOf(e, row) ==
    LET gender_col == GenderColumnOf(DefaultMapping)
    IN  IF /\ ~IsNone(gender_col)
           /\ HasCell(row, Val(gender_col))
           /\ Lower(Strip(Val(row[Val(gender_col)]))) \in {"male", "female"}
        THEN /\ "gender" \in DOMAIN e
             /\ e.gender = Lower(Strip(Val(row[Val(gender_col)])))
        ELSE "gender" \notin DOMAIN e

\* C24: a row with a readable date and a metric in range is processed normally
\* whatever the gender column holds and also when the mapping configures no
\* gender column: it adds no error, and its event carries gender only for a
\* configured column whose trimmed, lowercased cell is male or female.
C24_GenderCapture ==
    call.op = "process_csv" =>
        /\ \A k \in DOMAIN CallRows :
              YieldsEvent(CallRows[k].row) => (k + 1) \notin ErrorRows
        /\ Len(ret.events) = Len(EventRows)
        /\ \A j \in DOMAIN ret.events :
              j <= Len(EventRows) => GenderOf(ret.events[j], EventRows[j].row)

\* the metrics of an event lie within their ranges: body_mass_kg within
\* [0, BODY_MASS_MAX], every other number within [METRIC_MIN, METRIC_MAX]
WithinRanges(e) ==
    \A key \in DOMAIN e.metrics \ {"test_type"} :
        IF key = "body_mass_kg"
        THEN e.metrics[key] >= 0 /\ e.metrics[key] <= BODY_MASS_MAX * 100
        ELSE e.metrics[key] >= METRIC_MIN * 100 /\ e.metrics[key] <= METRIC_MAX * 100

\* the metric keys whose cell in the row holds a number in range
InRangeKeys(row) ==
    {DefaultMapping.metric_columns[i].metric_key :
        i \in {n \in DOMAIN DefaultMapping.metric_columns : InRangeMetric(row, n)}}

\* the cell under the column holds a number outside [lo, hi] (in hundredths)
OutOfRange(row, column, lo, hi) ==
    /\ HasCell(row, column)
    /\ ~IsNone(FloatOf(Strip(Val(row[column]))))
    /\ \/ Val(FloatOf(Strip(Val(row[column])))) < lo
       \/ Val(FloatOf(Strip(Val(row[column])))) > hi

\* the row holds a body mass or a metric outside its range
HasOutOfRangeCell(row) ==
    \/ OutOfRange(row, DefaultMapping.mass_column, 0, BODY_MASS_MAX * 100)
    \/ \E i \in DOMAIN DefaultMapping.metric_columns :
          OutOfRange(row, DefaultMapping.metric_columns[i].csv_column,
                     METRIC_MIN * 100, METRIC_MAX * 100)

\* C25: every metric of an emitted event lies in [0, 500] and its body_mass_kg
\* in [0, 300]; a cell outside its range adds no error, and the row is still
\* emitted with exactly its metrics in range.
C25_RangeFilters ==
    call.op = "process_csv" =>
        /\ \A j \in DOMAIN ret.events : WithinRanges(ret.events[j])
        /\ \A k \in DOMAIN CallRows :
              (DateReadable(CallRows[k].row) /\ HasOutOfRangeCell(CallRows[k].row))
              => (k + 1) \notin ErrorRows
        /\ \A j \in DOMAIN EventRows :
              /\ j <= Len(ret.events)
              /\ DOMAIN ret.events[j].metrics \ {"test_type", "body_mass_kg"}
                    = InRangeKeys(EventRows[j].row)

\* the number of error entries reported for the k-th row of the reader
ErrorsOf(k) == Cardinality({j \in DOMAIN ret.errors : ret.errors[j].row = k + 1})

\* C27: every data row of process_csv ends in one event, one error or nothing.
\* A row with a blank or unparseable date gives exactly one error and no event
\* whatever its other cells hold; a row with a readable date gives no error, and
\* an event exactly when it holds a metric in range; the events are those of
\* the event rows in file order, so that events and errors together are no
\* more than the rows.
C27_RowOutcomes ==
    call.op = "process_csv" =>
        /\ ret.kind = "ok"
        /\ \A k \in DOMAIN CallRows :
              ErrorsOf(k) = (IF DateMissing(CallRows[k].row) \/ DateInvalid(CallRows[k].row)
                             THEN 1 ELSE 0)
        /\ Len(ret.events) = Len(EventRows)
        /\ \A j \in DOMAIN ret.events :
              j <= Len(EventRows)
              => ret.events[j].event_date = EventDateOf(EventRows[j].row)
        /\ Len(ret.events) + Len(ret.errors) <= Len(CallRows)

\* the first metric mapping, in mapping order, whose cell in the row holds a
\* number in range
FirstInRange(row) ==
    CHOOSE i \in DOMAIN DefaultMapping.metric_columns :
        /\ InRangeMetric(row, i)
        /\ \A n \in 1..(i - 1) : ~InRangeMetric(row, n)

----------------------------------------------------------------------------
(* Properties of calculate_daily_loads *)

\* the sessions of the call dated d, in the order they were passed
SessionsOn(d) == SelectSeq(call.sessions, LAMBDA s : s.session_date = d)

\* the sum of what each session of a list contributes to its day
RECURSIVE ContributionSum(_)
ContributionSum(sessions) ==
    IF sessions = <<>> THEN 0
    ELSE SessionSrpe(Head(sessions)) + ContributionSum(Tail(sessions))

\* the entries of the returned daily loads dated d
EntriesOn(d) == SelectSeq(ret.daily_loads, LAMBDA e : e.date = d)

----------------------------------------------------------------------------
(* Properties of the events upload_csv stores *)

\* the rows of the uploaded text that stand for an event, in file order
UploadEventRows == SelectSeq(UploadRows, LAMBDA r : YieldsEvent(r.row))

\* the upload is one the store part of upload_csv is to handle: a readable file
\* with an event row, a configured store that answers the athlete queries, and
\* either no athlete_id or the id of an athlete of the caller
UploadToStore ==
    /\ call.op = "upload_csv" /\ FileReadable /\ call.configured
    /\ Len(UploadEventRows) > 0
    /\ ~call.faults.select /\ ~call.faults.insert_athlete
    /\ \/ IsNone(call.athlete_id)
       \/ \E i \in DOMAIN call.store.athletes :
             /\ call.store.athletes[i].id = Val(call.athlete_id)
             /\ call.store.athletes[i].coach_id = call.current_user.id

\* the event rows whose event has an athlete: all of them under an athlete_id
\* override, else those with an athlete name
BatchRows ==
    SelectSeq(UploadEventRows,
              LAMBDA r : ~IsNone(call.athlete_id) \/ HasCell(r.row, "Athlete"))

\* the number of error entries of the response with the reason
ErrorCount(reason) ==
    Cardinality({j \in DOMAIN ret.resp.errors : ret.resp.errors[j].reason = reason})

\* C29: upload_csv answers 201 with processed equal to the number of events it
\* added to the store: the whole batch when the batch insert succeeds; after a
\* failed batch insert one for every single insert that succeeds, with one
\* 'Database error' entry for every one that fails, so that processed plus the
\* database errors is the size of the batch.
C29_ProcessedCount ==
    UploadToStore =>
        /\ ret.resp.status = 201
        /\ ret.resp.processed = Len(Inserted)
        /\ ret.resp.processed + ErrorCount("Database error") = Len(BatchRows)
        /\ ~call.faults.insert_batch => ret.resp.processed = Len(BatchRows)

\* the athlete names of the event rows of the upload
UploadNames ==
    {Truncate100(strip_html(Strip(Val(UploadEventRows[k].row["Athlete"])))) :
        k \in {n \in DOMAIN UploadEventRows : HasCell(UploadEventRows[n].row, "Athlete")}}

\* the athletes the call added to the store
CreatedAthletes ==
    SubSeq(db.athletes, Len(call.store.athletes) + 1, Len(db.athletes))

\* how often the text occurs in the trace of the call
TraceCount(text) == Cardinality({i \in DOMAIN ret.trace : ret.trace[i] = text})

\* C30: an upload without athlete_id looks every distinct athlete name up at
\* most once and creates at most one athlete for it, with gender 'male' when
\* the file captured none for the name; the events of the rows with a name are
\* stored, each under an athlete of that name; an event row without a name is
\* not stored and adds a 'No athlete ID or name for event' entry to errors.
C30_NameResolvedOnce ==
    (UploadToStore /\ IsNone(call.athlete_id) /\ ~call.faults.insert_batch) =>
        /\ ret.resp.status = 201
        /\ TraceCount("select athletes") <= Cardinality(UploadNames)
        /\ \A name \in UploadNames :
              Cardinality({i \in DOMAIN CreatedAthletes :
                              CreatedAthletes[i].name = name}) <= 1
        /\ \A i \in DOMAIN CreatedAthletes : CreatedAthletes[i].gender = "male"
        /\ Len(Inserted) = Len(BatchRows)
        /\ \A j \in DOMAIN Inserted :
              \E i \in DOMAIN db.athletes :
                  /\ db.athletes[i].id = Inserted[j].athlete_id
                  /\ db.athletes[i].name =
                        Truncate100(strip_html(Strip(Val(BatchRows[j].row["Athlete"]))))
        /\ \A i, j \in DOMAIN Inserted :
              BatchRows[i].row["Athlete"] = BatchRows[j].row["Athlete"]
              => Inserted[i].athlete_id = Inserted[j].athlete_id
        /\ ErrorCount("No athlete ID or name for event")
              = Len(UploadEventRows) - Len(BatchRows)

====
